---------------------------- MODULE Spec2Model ----------------------------
(***************************************************************************)
(* Deadlock-avoidance resource ledger (class BankersAlgorithm) of the      *)
(* traffic system: the ledger's fields, its four mutating operations and   *)
(* its safety algorithm, each translated from BankersAlgorithm.cpp; and    *)
(* the coordinator of main.cpp that pairs the ledger with the two named    *)
(* semaphores (acquireResource, releaseResource and the workers that call  *)
(* them).                                                                  *)
(***************************************************************************)
EXTENDS Integers, FiniteSets, Sequences, TLC

\* Largest number of units of kind 0 in a totals, maximum, request or release
\* vector.
MaxUnit0 == 2

\* Largest number of units of kind 1 in such a vector.
MaxUnit1 == 1

\* Largest number of units a role may hold below zero when callers release
\* more than they were granted (specification SpecAnyRelease only).
MaxOver == 1

\* Largest entry of an arbitrary ledger state handed to isSafe (SpecIsSafe).
MaxEntry == 1

VARIABLES
    num_processes,     \* BankersAlgorithm::num_processes
    total_resources,   \* BankersAlgorithm::total_resources
    available,         \* BankersAlgorithm::available
    maximum,           \* BankersAlgorithm::maximum
    allocation,        \* BankersAlgorithm::allocation
    need,              \* BankersAlgorithm::need
    phase,             \* "setup" until the first Request or Release, then "run"
    last,              \* the most recent call on the ledger and what it returned
    sem,               \* values of the named semaphores laneSem, activeVehiclesSem
    pc,                \* where each worker of main.cpp is in its loop body
    portalLedger,      \* the forked user portal's own copy of the global banker
    entry,             \* per worker: the ledger as it was when its pending
                       \* acquireResource call began
    laneQueues,        \* number of vehicles queued in laneQueues
    activeVehicles,    \* number of vehicles in activeVehicles
    mtx,               \* BankersAlgorithm::mtx: "free" or the thread that owns it
    call,              \* per thread: its pending call on the ledger
    mq,                \* per message queue: the messages sent and not yet received
    producer,          \* per sender: where it is and the message in its hand
    consumer,          \* where challanGeneratorProcess is in its loop
    challans,          \* challanGeneratorProcess: its map of challans
    now,               \* the clock that time(NULL) reads
    handled,           \* the message challanGeneratorProcess handled last
    trafficLights,     \* main.cpp: per direction, TrafficLight::state
    currentGreenIndex, \* trafficLightControllerThread: its local index
    queued,            \* main.cpp: per lane, laneQueues[lane].vehicles.size()
    allocatedResources \* ProjectPhil.cpp: the intersection slots in use

\* The fields of the ledger and the record of the last call on it.
ledgerVars == <<num_processes, total_resources, available, maximum,
                allocation, need, phase, last>>

\* The state of the coordinator of main.cpp.
coordVars == <<sem, pc, portalLedger, entry, laneQueues, activeVehicles>>

\* The ledger's mutex and the calls of the threads that compete for it.
lockVars == <<mtx, call>>

\* The message queues and the processes at their two ends.
chanVars == <<mq, producer, consumer>>

\* The challan records and the clock that stamps them.
billVars == <<challans, now, handled>>

\* The traffic lights and the lanes of main.cpp, and the slot counter of
\* ProjectPhil.cpp.
trafficVars == <<trafficLights, currentGreenIndex, queued, allocatedResources>>

envVars == <<coordVars, lockVars, chanVars, billVars, trafficVars>>

vars == <<num_processes, total_resources, available, maximum, allocation,
          need, phase, last, envVars>>

\* BankersAlgorithm::num_resources; main.cpp constructs the ledger with
\* NUM_RESOURCE_TYPES = 2 (LANE_SEM, ACTIVE_VEHICLES_SEM).
num_resources == 2

\* The constructor's argument processes for the ledgers of Spec and
\* SpecAnyRelease: the two roles of the scenarios (A and B, P1 and P2).
LedgerRoles == 2

\* Numbers of roles of the ledger states handed to isSafe in SpecIsSafe.
RoleCounts == 1..3

Resources == 0..(num_resources - 1)

Processes == 0..(num_processes - 1)

\* std::vector<int>(resources, 0)
ZeroVec == [r \in Resources |-> 0]

\* The vectors the callers pass: up to MaxUnit0 units of kind 0 and up to
\* MaxUnit1 units of kind 1.
Vectors == {v \in [Resources -> 0..MaxUnit0] : v[1] <= MaxUnit1}

\* The vector {a, b}.
Vec(a, b) == [r \in Resources |-> IF r = 0 THEN a ELSE b]

VecLeq(u, v) == \A r \in Resources : u[r] <= v[r]

VecAdd(u, v) == [r \in Resources |-> u[r] + v[r]]

VecSub(u, v) == [r \in Resources |-> u[r] - v[r]]

\* The three fields the safety algorithm and Request/Release read and write.
Ledger == [available |-> available, allocation |-> allocation, need |-> need]

---------------------------------------------------------------------------
(* Names of main.cpp used by the coordinator *)

\* enum ResourceType { LANE_SEM, ACTIVE_VEHICLES_SEM, NUM_RESOURCE_TYPES }.
LANE_SEM == 0

ACTIVE_VEHICLES_SEM == 1

\* enum ProcessID: the roles that call acquireResource, and their number.
TRAFFIC_LIGHT_CONTROLLER == 0

SPAWN_VEHICLES == 1

SPEED_MANAGER == 2

OUT_OF_ORDER == 3

USER_PORTAL == 7

NUM_PROCESSES == 8

\* The workers that call acquireResource and releaseResource: the main thread
\* (processQueues), the three worker threads and the forked user portal.
Workers == {"main", "spawnVehicles", "speedManager", "outOfOrder", "userPortal"}

\* The role each worker passes as the argument process.
RoleOf(w) ==
    CASE w = "main"          -> TRAFFIC_LIGHT_CONTROLLER
      [] w = "spawnVehicles" -> SPAWN_VEHICLES
      [] w = "speedManager"  -> SPEED_MANAGER
      [] w = "outOfOrder"    -> OUT_OF_ORDER
      [] w = "userPortal"    -> USER_PORTAL

\* request[res] = 1 (acquireResource), release[res] = 1 (releaseResource).
Unit(res) == [r \in Resources |-> IF r = res THEN 1 ELSE 0]

\* A worker between two calls: at the top of its loop.
Idle == [at |-> "idle", res |-> LANE_SEM, then |-> "idle"]

\* No acquireResource call pending.
NoEntry == [available |-> ZeroVec, allocation |-> <<>>, need |-> <<>>]

\* No coordinator: the specifications of the ledger alone, of the mutex and
\* of the message queues have no workers and no semaphores.
NoCoordinator ==
    /\ sem = <<>>
    /\ pc = <<>>
    /\ portalLedger = <<>>
    /\ entry = <<>>
    /\ laneQueues = 0
    /\ activeVehicles = 0

\* The threads that call the ledger concurrently, and the role each passes.
Threads == {"t0", "t1"}

ThreadRole(t) == IF t = "t0" THEN 0 ELSE 1

\* No snapshot of the ledger taken.
NoSnap == [available |-> ZeroVec, allocation |-> <<>>, need |-> <<>>,
           maximum |-> <<>>, total_resources |-> ZeroVec]

\* A thread with no call pending.
NoCall == [at |-> "idle", op |-> "none", vec |-> ZeroVec, ret |-> FALSE,
           snap |-> NoSnap]

\* The mutex unlocked and no call pending.
LockIdle ==
    /\ mtx = "free"
    /\ call = [t \in Threads |-> NoCall]

\* #define MQ_SMART_TO_CHALLAN, MQ_STRIPE_TO_CHALLAN.
Queues == {"/smart_to_challan", "/stripe_to_challan"}

\* The senders: speedManagerThread (and handleCollisionsAndCleanup) of the
\* parent, and stripePaymentProcess.
Producers == {"speedManager", "stripePayment"}

\* The queue each sender writes to.
QueueOf(s) == IF s = "speedManager" THEN "/smart_to_challan"
              ELSE "/stripe_to_challan"

\* A sender between two sends.
NoSend == [at |-> "idle", msg |-> ""]

\* The queues as mq_open creates them, nothing sent yet.
ChanIdle ==
    /\ mq = [q \in Queues |-> <<>>]
    /\ producer = [s \in Producers |-> NoSend]
    /\ consumer = "receive_violation"

\* No threads competing for the mutex.
NoThreads ==
    /\ mtx = "free"
    /\ call = <<>>

\* No message queues.
NoQueues ==
    /\ mq = <<>>
    /\ producer = <<>>
    /\ consumer = ""

\* No challan generator.
NoChallans ==
    /\ challans = <<>>
    /\ now = 0
    /\ handled = <<>>

\* The state outside the ledger in the specifications of the ledger alone.
\* No lights, no lanes, no slot in use.
NoTraffic ==
    /\ trafficLights = <<>>
    /\ currentGreenIndex = 0
    /\ queued = <<>>
    /\ allocatedResources = 0

EnvIdle ==
    NoCoordinator /\ NoThreads /\ NoQueues /\ NoChallans /\ NoTraffic

---------------------------------------------------------------------------
(* isSafe *)

\* Lines 36-42: can_finish, need[p][r] > work[r] for no r.
CanFinish(L, p, work) == \A r \in Resources : ~(L.need[p][r] > work[r])

\* Lines 34-51: the for loop over p, from role p on; s = [work, finish, progress].
RECURSIVE ScanPass(_, _, _)
ScanPass(L, p, s) ==
    IF p >= num_processes THEN s
    ELSE ScanPass(L, p + 1,
            IF ~s.finish[p] /\ CanFinish(L, p, s.work)
            THEN [work     |-> VecAdd(s.work, L.allocation[p]),
                  finish   |-> [s.finish EXCEPT ![p] = TRUE],
                  progress |-> TRUE]
            ELSE s)

\* Lines 32-52: while (progress) { progress = false; for ... }.
RECURSIVE ScanLoop(_, _)
ScanLoop(L, s) ==
    IF s.progress
    THEN ScanLoop(L, ScanPass(L, 0, [s EXCEPT !.progress = FALSE]))
    ELSE s

\* Lines 28-30: work = available, finish all false, progress = true.
ScanStart(L) == [work     |-> L.available,
                 finish   |-> [p \in Processes |-> FALSE],
                 progress |-> TRUE]

\* A safety check that scans the roles only once.
isSafeOnePass(L) ==
    LET s == ScanPass(L, 0, ScanStart(L)) IN \A p \in Processes : s.finish[p]

\* A safety check that approves every state.
isSafeAlways(L) == TRUE

\* isSafe() evaluated on the ledger fields L.
isSafeOf(L) ==
    LET s == ScanLoop(L, ScanStart(L)) IN \A p \in Processes : s.finish[p]

isSafe == isSafeOf(Ledger)

---------------------------------------------------------------------------
(* requestResources / releaseResources *)

\* Lines 61-65: request[r] > need[process][r] for some r.
ExceedsNeed(L, p, request) == \E r \in Resources : request[r] > L.need[p][r]

\* A check on the request that never rejects.
NeverRejects(L, p, request) == FALSE

\* Lines 68-72: request[r] > available[r] for some r.
NotEnough(L, p, request) == \E r \in Resources : request[r] > L.available[r]

\* A tentative allocation that forgets need[process][r] -= request[r].
AllocateKeepsNeed(L, p, request) ==
    [available  |-> VecSub(L.available, request),
     allocation |-> [L.allocation EXCEPT ![p] = VecAdd(@, request)],
     need       |-> L.need]

\* A tentative allocation that forgets available[r] -= request[r].
AllocateKeepsAvailable(L, p, request) ==
    [available  |-> L.available,
     allocation |-> [L.allocation EXCEPT ![p] = VecAdd(@, request)],
     need       |-> [L.need EXCEPT ![p] = VecSub(@, request)]]

\* Lines 75-79: the tentative allocation.
Allocate(L, p, request) ==
    [available  |-> VecSub(L.available, request),
     allocation |-> [L.allocation EXCEPT ![p] = VecAdd(@, request)],
     need       |-> [L.need EXCEPT ![p] = VecSub(@, request)]]

\* A rollback that leaves the tentative allocation in place.
RollbackNothing(L, p, request) == L

\* Lines 86-90: the rollback.
Rollback(L, p, request) ==
    [available  |-> VecAdd(L.available, request),
     allocation |-> [L.allocation EXCEPT ![p] = VecSub(@, request)],
     need       |-> [L.need EXCEPT ![p] = VecAdd(@, request)]]

\* A release that forgets to give the units back to available.
ReleasedKeepsAvailable(L, p, release) ==
    [available  |-> L.available,
     allocation |-> [L.allocation EXCEPT ![p] = VecSub(@, release)],
     need       |-> [L.need EXCEPT ![p] = VecAdd(@, release)]]

\* A release that refuses to give back more than the role holds.
ReleasedChecked(L, p, release) ==
    IF VecLeq(release, L.allocation[p])
    THEN [available  |-> VecAdd(L.available, release),
          allocation |-> [L.allocation EXCEPT ![p] = VecSub(@, release)],
          need       |-> [L.need EXCEPT ![p] = VecAdd(@, release)]]
    ELSE L

\* Lines 97-101: the body of releaseResources.
Released(L, p, release) ==
    [available  |-> VecAdd(L.available, release),
     allocation |-> [L.allocation EXCEPT ![p] = VecSub(@, release)],
     need       |-> [L.need EXCEPT ![p] = VecAdd(@, release)]]

\* The return site of requestResources and the ledger it leaves.
RequestOutcome(L, p, request) ==
    IF ExceedsNeed(L, p, request)
    THEN [site |-> "exceeds_need", ret |-> FALSE, ledger |-> L]
    ELSE IF NotEnough(L, p, request)
    THEN [site |-> "not_enough", ret |-> FALSE, ledger |-> L]
    ELSE LET T == Allocate(L, p, request) IN
         IF isSafeOf(T)
         THEN [site |-> "granted", ret |-> TRUE, ledger |-> T]
         ELSE [site |-> "unsafe", ret |-> FALSE,
               ledger |-> Rollback(T, p, request)]

---------------------------------------------------------------------------
(* The state after construction and the operations *)

\* BankersAlgorithm(resources, processes): every vector and matrix zero.
Constructed(n) ==
    /\ num_processes = n
    /\ total_resources = ZeroVec
    /\ available = ZeroVec
    /\ maximum = [p \in 0..(n - 1) |-> ZeroVec]
    /\ allocation = [p \in 0..(n - 1) |-> ZeroVec]
    /\ need = [p \in 0..(n - 1) |-> ZeroVec]
    /\ phase = "setup"
    /\ last = [op |-> "BankersAlgorithm"]

Init == Constructed(LedgerRoles) /\ EnvIdle

\* setTotalResources(total), called during setup.
SetTotalResources(total) ==
    /\ phase = "setup"
    /\ total_resources' = total
    /\ available' = total
    /\ last' = [op |-> "setTotalResources", vec |-> total]
    /\ UNCHANGED <<num_processes, maximum, allocation, need, phase>>

\* setMaximum(process, max_demand), called during setup.
SetMaximum(p, max_demand) ==
    /\ phase = "setup"
    /\ maximum' = [maximum EXCEPT ![p] = max_demand]
    /\ need' = [need EXCEPT ![p] = VecSub(max_demand, allocation[p])]
    /\ last' = [op |-> "setMaximum", process |-> p, vec |-> max_demand]
    /\ UNCHANGED <<num_processes, total_resources, available, allocation, phase>>

\* requestResources(process, request).
RequestResources(p, request) ==
    LET out == RequestOutcome(Ledger, p, request) IN
    /\ available' = out.ledger.available
    /\ allocation' = out.ledger.allocation
    /\ need' = out.ledger.need
    /\ phase' = "run"
    /\ last' = [op |-> "requestResources", process |-> p, vec |-> request,
                ret |-> out.ret, site |-> out.site]
    /\ UNCHANGED <<num_processes, total_resources, maximum>>

\* releaseResources(process, release).
ReleaseResources(p, release) ==
    LET out == Released(Ledger, p, release) IN
    /\ available' = out.available
    /\ allocation' = out.allocation
    /\ need' = out.need
    /\ phase' = "run"
    /\ last' = [op |-> "releaseResources", process |-> p, vec |-> release]
    /\ UNCHANGED <<num_processes, total_resources, maximum>>

SetTotals == /\ \E total \in Vectors : SetTotalResources(total)
             /\ UNCHANGED envVars

SetMax == /\ \E p \in Processes, m \in Vectors : SetMaximum(p, m)
          /\ UNCHANGED envVars

Request == /\ \E p \in Processes, request \in Vectors :
                  RequestResources(p, request)
           /\ UNCHANGED envVars

\* A caller that keeps the contract: it releases no more than it holds.
Release == /\ \E p \in Processes, release \in Vectors :
                  /\ VecLeq(release, allocation[p])
                  /\ ReleaseResources(p, release)
           /\ UNCHANGED envVars

Next == SetTotals \/ SetMax \/ Request \/ Release

Spec == Init /\ [][Next]_vars

---------------------------------------------------------------------------
(* Callers that break the contract of releaseResources *)

\* Any release vector: releaseResources checks nothing, so a role may give
\* back more than it holds (down to MaxOver units below zero).
ReleaseAny == /\ \E p \in Processes, release \in Vectors :
                     /\ \A r \in Resources :
                            allocation[p][r] - release[r] >= -MaxOver
                     /\ ReleaseResources(p, release)
              /\ UNCHANGED envVars

\* The ledger as initializeBankers leaves it: setTotalResources(total), then
\* setMaximum(p, max_demand) for every role p with max_demand equal to total.
InitConfigured ==
    \E total \in Vectors : LET max_demand == total IN
        /\ num_processes = LedgerRoles
        /\ total_resources = total
        /\ available = total
        /\ maximum = [p \in 0..(LedgerRoles - 1) |-> max_demand]
        /\ allocation = [p \in 0..(LedgerRoles - 1) |-> ZeroVec]
        /\ need = [p \in 0..(LedgerRoles - 1) |-> max_demand]
        /\ phase = "run"
        /\ last = [op |-> "setMaximum", process |-> LedgerRoles - 1,
                   vec |-> max_demand]
        /\ EnvIdle

NextAnyRelease == Request \/ ReleaseAny

SpecAnyRelease == InitConfigured /\ [][NextAnyRelease]_vars

---------------------------------------------------------------------------
(* isSafe as a function of the ledger state *)

\* The vectors with entries in 0..MaxEntry.
EntryVectors == [Resources -> 0..MaxEntry]

RECURSIVE SumAllocation(_, _)
\* The sum of the allocation rows of the roles in S.
SumAllocation(L, S) ==
    IF S = {} THEN ZeroVec
    ELSE LET p == CHOOSE q \in S : TRUE
         IN VecAdd(L.allocation[p], SumAllocation(L, S \ {p}))

\* A ledger of n roles holding any non-negative available, allocation and
\* need; maximum and total_resources are the ones that make it consistent.
InitIsSafe ==
    \E n \in RoleCounts :
      \E av \in EntryVectors, al \in [0..(n - 1) -> EntryVectors],
         nd \in [0..(n - 1) -> EntryVectors] :
        /\ num_processes = n
        /\ available = av
        /\ allocation = al
        /\ need = nd
        /\ maximum = [p \in 0..(n - 1) |-> VecAdd(al[p], nd[p])]
        /\ total_resources =
             VecAdd(av, SumAllocation([allocation |-> al], 0..(n - 1)))
        /\ phase = "run"
        /\ last = [op |-> "BankersAlgorithm"]
        /\ EnvIdle

\* isSafe(), a public method, called on the ledger as it stands.
IsSafeCall ==
    /\ last' = [op |-> "isSafe", ret |-> isSafe]
    /\ UNCHANGED <<num_processes, total_resources, available, maximum,
                   allocation, need, phase>>
    /\ UNCHANGED envVars

NextIsSafe == IsSafeCall

SpecIsSafe == InitIsSafe /\ [][NextIsSafe]_vars

---------------------------------------------------------------------------
(* Reference definitions used by the properties *)

RECURSIVE CanCompleteInSomeOrder(_, _, _)
\* The roles in S can be put in an order in which each one's need is at most
\* work plus the allocations of the roles of S placed before it.
CanCompleteInSomeOrder(L, work, S) ==
    \/ S = {}
    \/ \E p \in S :
          /\ VecLeq(L.need[p], work)
          /\ CanCompleteInSomeOrder(L, VecAdd(work, L.allocation[p]), S \ {p})

\* The textbook definition of a safe state: there is an ordering of all
\* roles in which each role's need is at most available plus the allocations
\* of the roles that precede it.
HasSafeOrder(L) == CanCompleteInSomeOrder(L, L.available, Processes)

\* The ledger fields after request is granted to role p, from the current state.
AfterGrant(p, request) ==
    [available  |-> VecSub(available, request),
     allocation |-> [allocation EXCEPT ![p] = VecAdd(allocation[p], request)],
     need       |-> [need EXCEPT ![p] = VecSub(need[p], request)]]

\* The ledger fields after role p releases release, from the current state.
AfterRelease(p, release) ==
    [available  |-> VecAdd(available, release),
     allocation |-> [allocation EXCEPT ![p] = VecSub(allocation[p], release)],
     need       |-> [need EXCEPT ![p] = VecAdd(need[p], release)]]

\* The step leaves available, allocation and need as they were.
LedgerUnchanged ==
    /\ available' = available
    /\ allocation' = allocation
    /\ need' = need

\* The step leaves the ledger fields equal to L.
LedgerBecomes(L) ==
    /\ available' = L.available
    /\ allocation' = L.allocation
    /\ need' = L.need

\* The step is a call of requestResources / of releaseResources.
IsRequestStep == last'.op = "requestResources"

IsReleaseStep == last'.op = "releaseResources"

\* Every role's maximum is at most the totals.
ConfigOK == \A p \in Processes : VecLeq(maximum[p], total_resources)

---------------------------------------------------------------------------
(* Properties *)

\* C1. Conservation: after every Request or Release call, whatever it
\* returns and whatever is released, for every resource kind r,
\* available[r] plus the sum over the roles of allocation[p][r] equals
\* total_resources[r].
C1_Conservation ==
    last.op \in {"requestResources", "releaseResources"} =>
        VecAdd(available, SumAllocation(Ledger, Processes)) = total_resources

\* A release beyond the holdings has happened while the other role holds units.
C1_Witness ==
    /\ last.op = "releaseResources"
    /\ \E p, q \in Processes : allocation[p][0] < 0 /\ allocation[q][0] > 0

\* C2. No granted state can lead to deadlock: from a configured ledger whose
\* maxima are at most the totals, after any Request and Release calls that
\* release no more than is held the ledger state is safe, and every Request
\* that returns true leaves a safe state.
C2_AlwaysSafe ==
    /\ (phase = "run" /\ ConfigOK) => HasSafeOrder(Ledger)
    /\ (last.op = "requestResources" /\ last.ret) => HasSafeOrder(Ledger)

\* A request was granted while both roles hold units and still need more.
C2_Witness ==
    /\ ConfigOK
    /\ last.op = "requestResources" /\ last.ret
    /\ \A p \in Processes : allocation[p] # ZeroVec /\ need[p] # ZeroVec

\* C3. No unsafe grant: a Request that passes both precondition checks and
\* whose tentative commit gives an unsafe state returns false and leaves
\* available, allocation and need as they were before the call.
C3_UnsafeRollback ==
    [][ (/\ IsRequestStep
         /\ VecLeq(last'.vec, need[last'.process])
         /\ VecLeq(last'.vec, available)
         /\ ~HasSafeOrder(AfterGrant(last'.process, last'.vec)))
        => (last'.ret = FALSE /\ LedgerUnchanged) ]_vars

\* A request of at least one unit was denied as unsafe.
C3_Witness ==
    /\ last.op = "requestResources"
    /\ last.site = "unsafe"
    /\ last.vec # ZeroVec

\* C4. isSafe() returns true if and only if there is an ordering of all
\* roles in which each role's need is at most available plus the allocations
\* of the roles before it, on every ledger of up to 3 roles and 2 kinds.
C4_IsSafeIsReference ==
    last.op = "isSafe" => (last.ret <=> HasSafeOrder(Ledger))

\* isSafe() returned true on a ledger of 3 roles where the first role of the
\* scan cannot finish at once.
C4_Witness ==
    /\ last.op = "isSafe" /\ last.ret
    /\ num_processes = 3
    /\ ~VecLeq(need[0], available)

\* C5. A Request with request[r] > need[role][r] for some r, or
\* request[r] > available[r] for some r, returns false at one of the two
\* precondition checks (before the safety check) and leaves available,
\* allocation and need unchanged.
C5_PreconditionReject ==
    [][ (/\ IsRequestStep
         /\ \/ ~VecLeq(last'.vec, need[last'.process])
            \/ ~VecLeq(last'.vec, available))
        => (/\ last'.ret = FALSE
            /\ last'.site \in {"exceeds_need", "not_enough"}
            /\ LedgerUnchanged) ]_vars

\* A request within the role's need was rejected for lack of free units.
C5_Witness ==
    /\ last.op = "requestResources"
    /\ last.site = "not_enough"
    /\ VecLeq(last.vec, need[last.process])

\* C6. Request returns true exactly when request <= need[role], request <=
\* available and the state after applying the request is safe; when it
\* returns true the ledger changes by exactly available -= request,
\* allocation[role] += request, need[role] -= request, and the rows of the
\* other roles, maximum and total_resources stay as they were.
C6_RequestDecision ==
    [][ IsRequestStep =>
        LET p == last'.process
            request == last'.vec
        IN /\ last'.ret <=> (/\ VecLeq(request, need[p])
                             /\ VecLeq(request, available)
                             /\ HasSafeOrder(AfterGrant(p, request)))
           /\ last'.ret => (/\ LedgerBecomes(AfterGrant(p, request))
                            /\ maximum' = maximum
                            /\ total_resources' = total_resources) ]_vars

\* A request of at least one unit was granted while another role holds units.
C6_Witness ==
    /\ last.op = "requestResources" /\ last.ret
    /\ last.vec # ZeroVec
    /\ \E q \in Processes : q # last.process /\ allocation[q] # ZeroVec

\* C7. Release applies allocation[role] -= release, available += release,
\* need[role] += release whatever the vector (also beyond the holdings) and
\* leaves the rows of the other roles, maximum and total_resources unchanged.
C7_ReleaseEffect ==
    [][ IsReleaseStep =>
        (/\ LedgerBecomes(AfterRelease(last'.process, last'.vec))
         /\ maximum' = maximum
         /\ total_resources' = total_resources) ]_vars

\* A role released more than it held: its allocation is below zero.
C7_Witness ==
    /\ last.op = "releaseResources"
    /\ last.vec # ZeroVec
    /\ \E r \in Resources : allocation[last.process][r] < 0

\* Totals [1,1] and maximum [1,1] for the two roles A = 0 and B = 1.
C8_Config ==
    /\ num_processes = 2
    /\ total_resources = Vec(1, 1)
    /\ maximum = [p \in Processes |-> Vec(1, 1)]

\* C8. Denial then retry: with totals [1,1] and maximum [1,1] for roles A
\* and B, every Request([1,0]) by B made while A holds both units returns
\* false, and the Request([1,0]) by B that follows A's Release of both units
\* returns true.
C8_DenialThenRetry ==
    [][ (/\ C8_Config
         /\ IsRequestStep /\ last'.process = 1 /\ last'.vec = Vec(1, 0))
        => (/\ allocation[0] = Vec(1, 1) => last'.ret = FALSE
            /\ (/\ last.op = "releaseResources"
                /\ last.process = 0 /\ last.vec = Vec(1, 1)
                /\ allocation[0] = ZeroVec)
               => last'.ret = TRUE) ]_vars

\* B's Request([1,0]) has just been denied while A holds both units.
C8_Witness ==
    /\ C8_Config
    /\ allocation[0] = Vec(1, 1)
    /\ last.op = "requestResources" /\ last.process = 1
    /\ last.vec = Vec(1, 0) /\ last.ret = FALSE

\* Totals [2,1], maximum [2,1] for P1 = 0 and [1,1] for P2 = 1.
C9_Config ==
    /\ num_processes = 2
    /\ total_resources = Vec(2, 1)
    /\ maximum = [p \in Processes |-> IF p = 0 THEN Vec(2, 1) ELSE Vec(1, 1)]

\* C9. With totals [2,1] and maxima [2,1] and [1,1]: from the initial state
\* P1's Request([1,0]) is granted and leaves available = [1,1]; the
\* Request([1,1]) by P2 that follows is granted and leaves available = [0,0].
C9_Scenario ==
    [][ (C9_Config /\ IsRequestStep) =>
        (/\ (/\ allocation = [p \in Processes |-> ZeroVec]
             /\ last'.process = 0 /\ last'.vec = Vec(1, 0))
            => (last'.ret = TRUE /\ available' = Vec(1, 1))
         /\ (/\ allocation = [p \in Processes |->
                                  IF p = 0 THEN Vec(1, 0) ELSE ZeroVec]
             /\ last.op = "requestResources" /\ last.process = 0
             /\ last.vec = Vec(1, 0) /\ last.ret
             /\ last'.process = 1 /\ last'.vec = Vec(1, 1))
            => (last'.ret = TRUE /\ available' = ZeroVec)) ]_vars

\* P2's Request([1,1]) has been granted on top of P1's [1,0].
C9_Witness ==
    /\ C9_Config
    /\ last.op = "requestResources" /\ last.process = 1
    /\ last.vec = Vec(1, 1) /\ last.ret
    /\ allocation[0] = Vec(1, 0) /\ allocation[1] = Vec(1, 1)
    /\ available = ZeroVec

\* C10. In every state reached through Request and Release calls that
\* release no more than was granted, 0 <= available[r] <= total_resources[r]
\* for every resource kind r.
C10_AvailableInRange ==
    \A r \in Resources : 0 <= available[r] /\ available[r] <= total_resources[r]

\* Every unit of both kinds is granted and both roles hold units.
C10_Witness ==
    /\ phase = "run"
    /\ \A r \in Resources : total_resources[r] > 0 /\ available[r] = 0
    /\ \A p \in Processes : allocation[p] # ZeroVec


-----------------------------------------------------------------------------
(* Reconfiguration while the ledger is in use.  setMaximum is a public      *)
(* method with no precondition on the caller: nothing in the class keeps it *)
(* from being called after units have been granted.                         *)

\* setMaximum(p, max_demand) called at any time (BankersAlgorithm.cpp 19-25).
SetMaximumAnytime(p, max_demand) ==
    /\ maximum' = [maximum EXCEPT ![p] = max_demand]
    /\ need' = [need EXCEPT ![p] = VecSub(max_demand, allocation[p])]
    /\ last' = [op |-> "setMaximum", process |-> p, vec |-> max_demand]
    /\ UNCHANGED <<num_processes, total_resources, available, allocation,
                   phase>>

SetMaxAny == /\ \E p \in Processes, m \in Vectors : SetMaximumAnytime(p, m)
             /\ UNCHANGED envVars

NextReconfigure == Request \/ Release \/ SetMaxAny

SpecReconfigure == InitConfigured /\ [][NextReconfigure]_vars

\* C11: after every committed ledger operation (setMaximum, requestResources,
\* releaseResources), for every role p and kind r,
\* need[p][r] = maximum[p][r] - allocation[p][r] and need[p][r] >= 0.
C11_NeedInvariant ==
    last.op \in {"setMaximum", "requestResources", "releaseResources"} =>
        \A p \in Processes, r \in Resources :
            /\ need[p][r] = maximum[p][r] - allocation[p][r]
            /\ need[p][r] >= 0

\* C12: setMaximum(role, maxDemand) fails, leaving maximum and need as they
\* were, if allocation[role][r] > maxDemand[r] for some resource kind r.
C12_SetMaximumRejects ==
    [][(/\ last'.op = "setMaximum"
        /\ \E r \in Resources :
               allocation[last'.process][r] > last'.vec[r])
       => (maximum' = maximum /\ need' = need)]_vars

-----------------------------------------------------------------------------
(* The coordinator of main.cpp: acquireResource and releaseResource over    *)
(* the ledger and the two named semaphores, called by the main thread, the  *)
(* worker threads and the forked user portal while the system is running.   *)

\* Largest number of vehicles the model lets wait in laneQueues.
MaxQueued == 2

\* Largest number of vehicles the model lets be in activeVehicles.
MaxActive == 2

\* The global banker of the process the worker runs in: the user portal is a
\* forked child and works on its own copy (fork() at main.cpp 1125).
LedgerOf(w) == IF w = "userPortal" THEN portalLedger ELSE Ledger

\* banker.requestResources(process, request) returned true.
Granted(w, res) == RequestOutcome(LedgerOf(w), RoleOf(w), Unit(res)).ret

\* banker.requestResources(process, request) in the worker's process.
BankerRequest(w, res) ==
    IF w = "userPortal"
    THEN /\ portalLedger' =
               RequestOutcome(portalLedger, RoleOf(w), Unit(res)).ledger
         /\ UNCHANGED <<num_processes, total_resources, available, maximum,
                        allocation, need, phase, last>>
    ELSE /\ RequestResources(RoleOf(w), Unit(res))
         /\ UNCHANGED portalLedger

\* banker.releaseResources(process, release) in the worker's process.
BankerRelease(w, res) ==
    IF w = "userPortal"
    THEN /\ portalLedger' = Released(portalLedger, RoleOf(w), Unit(res))
         /\ UNCHANGED <<num_processes, total_resources, available, maximum,
                        allocation, need, phase, last>>
    ELSE /\ ReleaseResources(RoleOf(w), Unit(res))
         /\ UNCHANGED portalLedger

\* Where acquireResource goes after banker.requestResources: into sem_wait on
\* a grant, straight to return false on a denial.
AcquireAlwaysWaits(granted) == "sem_wait"

\* acquireResource, the if/else on banker.requestResources.
AcquireNext(granted) == IF granted THEN "sem_wait" ELSE "return_false"

\* releaseResource posts the semaphore without asking whether the ledger
\* agrees.
ReleaseLedgerFirst == <<"ledger_release", "sem_post">>

\* The order of the two steps of releaseResource.
ReleaseOrder == <<"sem_post", "ledger_release">>

\* A sem_post that is lost.
PostedLost(value) == value

\* The value of a semaphore after sem_post.
Posted(value) == value + 1

\* sem_wait proceeds whatever the value.
SemAlwaysAvailable(res) == TRUE

\* sem_wait can decrement: the semaphore's value is positive.
SemAvailable(res) == sem[res] > 0

\* 1 while outOfOrderThread is on its way to insert the tow truck, else 0:
\* the model keeps that vehicle's place in both collections, so that the caps
\* MaxQueued and MaxActive never stop a worker that holds a unit.
TowPending ==
    IF \/ pc["outOfOrder"].at = "lane_call"
       \/ /\ pc["outOfOrder"].res = LANE_SEM
          /\ pc["outOfOrder"].at \in {"sem_wait", "rollback", "held"}
    THEN 1 ELSE 0

\* The worker's loop body stands at a call acquireResource(RoleOf(w), res).
CallsAcquire(w, res) ==
    CASE w = "main" ->
           \* processQueues: a lane with a GREEN light and a non-empty queue.
           /\ pc[w].at = "idle" /\ res = ACTIVE_VEHICLES_SEM
           /\ laneQueues > 0 /\ activeVehicles + TowPending < MaxActive
      [] w = "spawnVehicles" -> pc[w].at = "idle" /\ res = LANE_SEM
      [] w = "speedManager" -> pc[w].at = "idle" /\ res = ACTIVE_VEHICLES_SEM
      [] w = "outOfOrder" ->
           \/ /\ pc[w].at = "idle" /\ res = ACTIVE_VEHICLES_SEM
              /\ \/ activeVehicles = 0
                 \/ laneQueues < MaxQueued /\ activeVehicles < MaxActive
           \/ pc[w].at = "lane_call" /\ res = LANE_SEM
      [] w = "userPortal" -> pc[w].at = "idle" /\ res = ACTIVE_VEHICLES_SEM

\* The worker's position once the pending call has returned to `at`.
Returned(at) == [at |-> at, res |-> LANE_SEM, then |-> "idle"]

\* acquireResource(process, res) up to the result of requestResources: on a
\* denial it stands at return false, on a grant before sem_wait.
AcquireResource(w, res) ==
    /\ CallsAcquire(w, res)
    /\ BankerRequest(w, res)
    /\ pc' = [pc EXCEPT ![w] = [at |-> AcquireNext(Granted(w, res)),
                                res |-> res, then |-> "idle"]]
    /\ entry' = [entry EXCEPT ![w] = IF Granted(w, res) THEN LedgerOf(w)
                                     ELSE NoEntry]
    /\ UNCHANGED <<sem, laneQueues, activeVehicles>>

\* sem_wait returns 0: the semaphore is taken and acquireResource returns
\* true.
SemWait(w) ==
    /\ pc[w].at = "sem_wait"
    /\ SemAvailable(pc[w].res)
    /\ sem' = [sem EXCEPT ![pc[w].res] = @ - 1]
    /\ pc' = [pc EXCEPT ![w].at = "held"]
    /\ entry' = [entry EXCEPT ![w] = NoEntry]
    /\ UNCHANGED <<num_processes, total_resources, available, maximum,
                   allocation, need, phase, last, portalLedger, laneQueues,
                   activeVehicles>>

\* sem_wait returns -1 (interrupted or invalid semaphore): nothing is taken.
SemWaitFails(w) ==
    /\ pc[w].at = "sem_wait"
    /\ pc' = [pc EXCEPT ![w].at = "rollback"]
    /\ UNCHANGED <<num_processes, total_resources, available, maximum,
                   allocation, need, phase, last, sem, portalLedger, entry,
                   laneQueues, activeVehicles>>

\* The failure branch: banker.releaseResources(process, request), then
\* return false.
RollbackGrant(w) ==
    /\ pc[w].at = "rollback"
    /\ BankerRelease(w, pc[w].res)
    /\ pc' = [pc EXCEPT ![w].at = "return_false"]
    /\ entry' = [entry EXCEPT ![w] = NoEntry]
    /\ UNCHANGED <<sem, laneQueues, activeVehicles>>

\* acquireResource has returned false: the caller logs and goes back to the
\* top of its loop (continue, or return in handleCollisionsAndCleanup).
ReturnFalse(w) ==
    /\ pc[w].at = "return_false"
    /\ pc' = [pc EXCEPT ![w] = Idle]
    /\ UNCHANGED <<num_processes, total_resources, available, maximum,
                   allocation, need, phase, last, sem, portalLedger, entry,
                   laneQueues, activeVehicles>>

\* The worker's code between acquireResource returning true and the call of
\* releaseResource.
Body(w) ==
    /\ pc[w].at = "held"
    /\ CASE w = "main" ->
              \* processQueues: pop_front from the lane, push_back to the
              \* roster.
              /\ laneQueues' = laneQueues - 1
              /\ activeVehicles' = activeVehicles + 1
              /\ pc' = [pc EXCEPT ![w].at = ReleaseOrder[1]]
         [] w = "spawnVehicles" ->
              \* heavy vehicle in peak hours or lane full: nothing queued;
              \* otherwise push_front/push_back on the lane.
              /\ \/ UNCHANGED laneQueues
                 \/ /\ laneQueues + TowPending < MaxQueued
                    /\ laneQueues' = laneQueues + 1
              /\ UNCHANGED activeVehicles
              /\ pc' = [pc EXCEPT ![w].at = ReleaseOrder[1]]
         [] w = "speedManager" ->
              \* reads the roster.
              /\ UNCHANGED <<laneQueues, activeVehicles>>
              /\ pc' = [pc EXCEPT ![w].at = ReleaseOrder[1]]
         [] w = "outOfOrder" ->
              IF pc[w].res = ACTIVE_VEHICLES_SEM
              THEN \* marks a vehicle of a non-empty roster and goes on to
                   \* call the tow truck; leaves an empty roster alone.
                   /\ UNCHANGED <<laneQueues, activeVehicles>>
                   /\ pc' = [pc EXCEPT ![w].at = ReleaseOrder[1],
                                       ![w].then =
                                           IF activeVehicles > 0
                                           THEN "lane_call" ELSE "idle"]
              ELSE \* the tow truck: push_front on the lane, push_back on
                   \* the roster.
                   /\ laneQueues' = laneQueues + 1
                   /\ activeVehicles' = activeVehicles + 1
                   /\ pc' = [pc EXCEPT ![w].at = ReleaseOrder[1]]
         [] w = "userPortal" ->
              \* prints the challans.
              /\ UNCHANGED <<laneQueues, activeVehicles>>
              /\ pc' = [pc EXCEPT ![w].at = ReleaseOrder[1]]
    /\ UNCHANGED <<num_processes, total_resources, available, maximum,
                   allocation, need, phase, last, sem, portalLedger, entry>>

\* The worker's position after the step `at` of releaseResource.
AfterReleaseStep(w, at) ==
    IF at = ReleaseOrder[1]
    THEN [pc[w] EXCEPT !.at = ReleaseOrder[2]]
    ELSE Returned(pc[w].then)

\* releaseResource: sem_post on the kind's semaphore.
SemPost(w) ==
    /\ pc[w].at = "sem_post"
    /\ sem' = [sem EXCEPT ![pc[w].res] = Posted(@)]
    /\ pc' = [pc EXCEPT ![w] = AfterReleaseStep(w, "sem_post")]
    /\ UNCHANGED <<num_processes, total_resources, available, maximum,
                   allocation, need, phase, last, portalLedger, entry,
                   laneQueues, activeVehicles>>

\* releaseResource: banker.releaseResources(process, release).
LedgerRelease(w) ==
    /\ pc[w].at = "ledger_release"
    /\ BankerRelease(w, pc[w].res)
    /\ pc' = [pc EXCEPT ![w] = AfterReleaseStep(w, "ledger_release")]
    /\ UNCHANGED <<sem, entry, laneQueues, activeVehicles>>

\* processQueues has visited its last lane; the main thread then stays in
\* runDeadlockPrevention, which loops for as long as the system is running.
RunDeadlockPrevention ==
    /\ pc["main"].at = "idle"
    /\ pc' = [pc EXCEPT !["main"].at = "runDeadlockPrevention"]
    /\ UNCHANGED <<num_processes, total_resources, available, maximum,
                   allocation, need, phase, last, sem, portalLedger, entry,
                   laneQueues, activeVehicles, lockVars, chanVars, billVars, trafficVars>>

\* The ledger after initializeBankers() and the process after main has opened
\* the semaphores with value 1, forked the user portal and started the
\* threads.
InitMain ==
    /\ num_processes = NUM_PROCESSES
    /\ total_resources = Vec(1, 1)
    /\ available = Vec(1, 1)
    /\ maximum = [p \in 0..(NUM_PROCESSES - 1) |-> Vec(1, 1)]
    /\ allocation = [p \in 0..(NUM_PROCESSES - 1) |-> ZeroVec]
    /\ need = [p \in 0..(NUM_PROCESSES - 1) |-> Vec(1, 1)]
    /\ phase = "run"
    /\ last = [op |-> "setMaximum", process |-> NUM_PROCESSES - 1,
               vec |-> Vec(1, 1)]
    /\ sem = [r \in Resources |-> 1]
    /\ pc = [w \in Workers |-> Idle]
    /\ portalLedger = [available  |-> Vec(1, 1),
                       allocation |-> [p \in 0..(NUM_PROCESSES - 1) |-> ZeroVec],
                       need       |-> [p \in 0..(NUM_PROCESSES - 1) |-> Vec(1, 1)]]
    /\ entry = [w \in Workers |-> NoEntry]
    /\ laneQueues = 0
    /\ activeVehicles = 0
    /\ NoThreads
    /\ NoQueues
    /\ NoChallans
    /\ NoTraffic

Acquire == /\ \E w \in Workers, res \in Resources : AcquireResource(w, res)
           /\ UNCHANGED <<lockVars, chanVars, billVars, trafficVars>>

Wait == /\ \E w \in Workers : SemWait(w)
        /\ UNCHANGED <<lockVars, chanVars, billVars, trafficVars>>

WaitFails == /\ \E w \in Workers : SemWaitFails(w)
             /\ UNCHANGED <<lockVars, chanVars, billVars, trafficVars>>

Undo == /\ \E w \in Workers : RollbackGrant(w)
        /\ UNCHANGED <<lockVars, chanVars, billVars, trafficVars>>

Denied == /\ \E w \in Workers : ReturnFalse(w)
          /\ UNCHANGED <<lockVars, chanVars, billVars, trafficVars>>

Work == /\ \E w \in Workers : Body(w)
        /\ UNCHANGED <<lockVars, chanVars, billVars, trafficVars>>

Post == /\ \E w \in Workers : SemPost(w)
        /\ UNCHANGED <<lockVars, chanVars, billVars, trafficVars>>

Inform == /\ \E w \in Workers : LedgerRelease(w)
          /\ UNCHANGED <<lockVars, chanVars, billVars, trafficVars>>

NextMain == \/ Acquire
            \/ Wait
            \/ WaitFails
            \/ Undo
            \/ Denied
            \/ Work
            \/ Post
            \/ Inform
            \/ RunDeadlockPrevention

SpecMain == InitMain /\ [][NextMain]_vars

-----------------------------------------------------------------------------
(* Positions of a worker with respect to the semaphores *)

\* The worker has taken the kind's semaphore and not yet posted it: it is
\* between acquireResource returning true and the sem_post of its
\* releaseResource.
HoldsSem(w, res) == pc[w].res = res /\ pc[w].at \in {"held", "sem_post"}

\* The worker is in sem_wait and the semaphore's value is 0.
Blocked(w) == pc[w].at = "sem_wait" /\ sem[pc[w].res] = 0

\* The worker's step asks the ledger for the unit (acquireResource is called
\* and banker.requestResources returns).
AsksLedger(w) ==
    /\ pc[w].at \in {"idle", "lane_call"}
    /\ pc'[w].at \in {"sem_wait", "return_false"}

\* The ledger-side typing every model state of the coordinator satisfies.
CoordTypeOK ==
    /\ laneQueues \in 0..MaxQueued
    /\ activeVehicles \in 0..MaxActive
    /\ \A w \in Workers : pc[w].res \in Resources

\* C13: when the ledger denies the unit request, acquireResource goes
\* straight to return false: the step leaves both semaphores and the ledger
\* as they were and does not enter the semaphore wait; a worker is in the
\* semaphore wait only with the ledger's grant in place.
C13_DenialReturnsAtOnce ==
    [][\A w \in Workers :
         /\ (/\ AsksLedger(w)
             /\ IF w = "userPortal" THEN ~Granted(w, pc'[w].res)
                ELSE last'.ret = FALSE)
            => /\ pc'[w].at = "return_false"
               /\ sem' = sem
               /\ portalLedger' = portalLedger
               /\ LedgerUnchanged
         /\ pc'[w].at = "sem_wait" =>
                IF w = "userPortal"
                THEN portalLedger'.allocation[RoleOf(w)][pc'[w].res] = 1
                ELSE allocation'[RoleOf(w)][pc'[w].res] = 1]_vars

C13_Witness ==
    \E w \in Workers :
        /\ pc[w].at = "return_false"
        /\ last.op = "requestResources" /\ last.process = RoleOf(w)
        /\ last.ret = FALSE
        /\ \E h \in Workers \ {w} : HoldsSem(h, pc[w].res)

\* C14: when the ledger grants the unit but sem_wait fails, acquireResource
\* returns false, the caller does not hold the semaphore, and available,
\* allocation and need are back at their values before the call.
C14_WaitFailureRollsBack ==
    [][\A w \in Workers :
         (pc[w].at = "rollback" /\ pc'[w].at # "rollback")
         => /\ pc'[w].at = "return_false"
            /\ sem' = sem
            /\ IF w = "userPortal" THEN portalLedger' = entry[w]
               ELSE LedgerBecomes(entry[w])]_vars

C14_Witness ==
    \E w \in Workers \ {"userPortal"} :
        /\ pc[w].at = "return_false"
        /\ last.op = "releaseResources" /\ last.process = RoleOf(w)
        /\ sem[pc[w].res] = 1
        /\ allocation[RoleOf(w)] = ZeroVec

\* C15: mutual exclusion per resource kind: at most one worker (thread of the
\* parent or the forked user portal) at a time is between a successful
\* acquireResource and the matching releaseResource for the same kind.
C15_MutualExclusion ==
    \A res \in Resources :
        Cardinality({w \in Workers : HoldsSem(w, res)}) <= 1

C15_Witness ==
    \E w \in Workers, h \in Workers :
        /\ w # h
        /\ HoldsSem(h, ACTIVE_VEHICLES_SEM)
        /\ pc[w].res = ACTIVE_VEHICLES_SEM
        /\ Blocked(w)

\* C16: releaseResource frees the semaphore before it updates the ledger: a
\* worker that has posted and not yet informed the ledger is still counted as
\* holding the unit while the semaphore is free (or already taken by someone
\* else), and a worker that still holds the semaphore is never shown by its
\* ledger as holding nothing or the unit as available.
C16_SemaphoreFreedFirst ==
    \A w \in Workers :
        LET L == LedgerOf(w)
            res == pc[w].res
        IN /\ pc[w].at = "ledger_release" =>
                  /\ L.allocation[RoleOf(w)][res] = 1
                  /\ L.available[res] = 0
                  /\ \/ sem[res] = 1
                     \/ \E h \in Workers \ {w} :
                            pc[h].res = res
                            /\ pc[h].at \in {"held", "sem_post",
                                             "ledger_release"}
           /\ HoldsSem(w, res) =>
                  /\ L.allocation[RoleOf(w)][res] = 1
                  /\ L.available[res] = 0

C16_Witness ==
    \E w \in Workers :
        /\ pc[w].at = "ledger_release"
        /\ sem[pc[w].res] = 1
        /\ LedgerOf(w).allocation[RoleOf(w)][pc[w].res] = 1

\* C18: every step that changes laneQueues is taken by a worker that holds
\* LANE_SEM at that moment, and every step that changes activeVehicles by a
\* worker that holds ACTIVE_VEHICLES_SEM.
C18_CallerDiscipline ==
    [][/\ laneQueues' # laneQueues =>
            \E w \in Workers : pc'[w] # pc[w] /\ HoldsSem(w, LANE_SEM)
       /\ activeVehicles' # activeVehicles =>
            \E w \in Workers :
                pc'[w] # pc[w] /\ HoldsSem(w, ACTIVE_VEHICLES_SEM)]_vars

-----------------------------------------------------------------------------
(* The message queues of ProjectPhil.cpp: the parent sends speed violations *)
(* and stripePaymentProcess sends payments; challanGeneratorProcess reads   *)
(* both.  main.cpp creates its queues with the same attributes.             *)

\* mqAttr.mq_maxmsg: the number of messages a queue holds.
mq_maxmsg == 10

\* Number plates that appear in speed violation messages.
ViolationIDs == {"ABC-1", "ABC-2"}

\* Number plates that appear in payment messages.
PaymentIDs == {"ABC-1"}

\* The vehicle IDs a sender may put in a message.
MessagesOf(s) == IF s = "speedManager" THEN ViolationIDs ELSE PaymentIDs

\* A queue that takes any number of messages.
MqAlwaysRoom(q) == TRUE

\* mq_send on a blocking descriptor goes ahead only while the queue holds
\* fewer than mq_maxmsg messages.
MqHasRoom(q) == Len(mq[q]) < mq_maxmsg

\* The sender has filled in a message and calls mq_send.
PrepareSend(s, id) ==
    /\ producer[s].at = "idle"
    /\ producer' = [producer EXCEPT ![s] = [at |-> "mq_send", msg |-> id]]
    /\ UNCHANGED <<mq, consumer>>

\* mq_send returns 0: the message is at the tail of the queue.
MqSend(s) ==
    /\ producer[s].at = "mq_send"
    /\ MqHasRoom(QueueOf(s))
    /\ mq' = [mq EXCEPT ![QueueOf(s)] = Append(@, producer[s].msg)]
    /\ producer' = [producer EXCEPT ![s] = NoSend]
    /\ UNCHANGED consumer

\* mq_send returns -1: the error is logged and nothing is queued.
MqSendFails(s) ==
    /\ producer[s].at = "mq_send"
    /\ producer' = [producer EXCEPT ![s] = NoSend]
    /\ UNCHANGED <<mq, consumer>>

\* challanGeneratorProcess: mq_receive on the violations queue returns a
\* message; an emergency vehicle's message sends it back to the top of the
\* loop (continue), any other on to the payments queue.
ReceiveViolation ==
    /\ consumer = "receive_violation"
    /\ mq["/smart_to_challan"] # <<>>
    /\ mq' = [mq EXCEPT !["/smart_to_challan"] = Tail(@)]
    /\ consumer' \in {"receive_payment", "receive_violation"}
    /\ UNCHANGED producer

\* challanGeneratorProcess: mq_receive on the payments queue returns a
\* message; then the loop sleeps and starts again.
ReceivePayment ==
    /\ consumer = "receive_payment"
    /\ mq["/stripe_to_challan"] # <<>>
    /\ mq' = [mq EXCEPT !["/stripe_to_challan"] = Tail(@)]
    /\ consumer' = "receive_violation"
    /\ UNCHANGED producer

\* The queues right after main has created them and forked the children.
InitChannels ==
    /\ Constructed(LedgerRoles)
    /\ NoCoordinator
    /\ NoThreads
    /\ ChanIdle
    /\ NoChallans
    /\ NoTraffic

Prepare == /\ \E s \in Producers : \E id \in MessagesOf(s) : PrepareSend(s, id)
           /\ UNCHANGED <<ledgerVars, coordVars, lockVars, billVars, trafficVars>>

Send == /\ \E s \in Producers : MqSend(s)
        /\ UNCHANGED <<ledgerVars, coordVars, lockVars, billVars, trafficVars>>

SendFails == /\ \E s \in Producers : MqSendFails(s)
             /\ UNCHANGED <<ledgerVars, coordVars, lockVars, billVars, trafficVars>>

Receive == /\ (ReceiveViolation \/ ReceivePayment)
           /\ UNCHANGED <<ledgerVars, coordVars, lockVars, billVars, trafficVars>>

NextChannels == Prepare \/ Send \/ SendFails \/ Receive

SpecChannels == InitChannels /\ [][NextChannels]_vars

\* C20: for each message queue the number of messages sent and not yet
\* received never exceeds 10, and a step taken while a queue holds 10
\* messages adds nothing to it and neither drops nor overwrites a queued
\* message: every step leaves a queue as it was, removes its head (a
\* receive), or appends one message at its tail while there was room.
C20_BoundedChannels ==
    [][\A q \in Queues :
         /\ Len(mq'[q]) <= 10
         /\ \/ mq'[q] = mq[q]
            \/ mq[q] # <<>> /\ mq'[q] = Tail(mq[q])
            \/ /\ Len(mq[q]) < 10
               /\ Len(mq'[q]) = Len(mq[q]) + 1
               /\ SubSeq(mq'[q], 1, Len(mq[q])) = mq[q]]_vars

C20_Witness ==
    \E s \in Producers :
        /\ producer[s].at = "mq_send"
        /\ Len(mq[QueueOf(s)]) = 10
        /\ \E i, j \in 1..10 : mq["/smart_to_challan"][i] # mq["/smart_to_challan"][j]

-----------------------------------------------------------------------------
(* The ledger's mutex: two threads call the locked methods concurrently,    *)
(* with the arguments main.cpp passes.  Every method holds a                *)
(* std::lock_guard on mtx from its first line to its return; inside         *)
(* requestResources the tentative allocation and the safety check with its  *)
(* rollback are separate steps.                                             *)

\* All the fields a locked method reads or writes.
FullLedger == [available |-> available, allocation |-> allocation,
               need |-> need, maximum |-> maximum,
               total_resources |-> total_resources]

\* The locked methods.
Methods == {"setTotalResources", "setMaximum", "requestResources",
            "releaseResources"}

\* The vectors main.cpp passes: {1, 1} to the two setters, one unit of one
\* kind to requestResources and releaseResources.
ArgumentsOf(op) ==
    IF op \in {"setTotalResources", "setMaximum"} THEN {Vec(1, 1)}
    ELSE {Unit(res) : res \in Resources}

\* A lock that never makes a thread wait.
MutexIgnored == TRUE

\* std::lock_guard's constructor returns only when no thread owns mtx.
MutexFree == mtx = "free"

\* The thread calls a method: the setters while the ledger is being set up,
\* releaseResources for a unit its role holds.
Invoke(t, op, vec) ==
    /\ call[t].at = "idle"
    /\ op \in {"setTotalResources", "setMaximum"} => phase = "setup"
    /\ op = "releaseResources" => VecLeq(vec, allocation[ThreadRole(t)])
    /\ call' = [call EXCEPT ![t] = [at |-> "lock", op |-> op, vec |-> vec,
                                    ret |-> FALSE, snap |-> NoSnap]]
    /\ UNCHANGED <<ledgerVars, mtx>>

\* std::lock_guard<std::mutex> lock(mtx).
Lock(t) ==
    /\ call[t].at = "lock"
    /\ MutexFree
    /\ mtx' = t
    /\ call' = [call EXCEPT ![t].at = "locked", ![t].snap = FullLedger]
    /\ UNCHANGED ledgerVars

\* The method's body up to its return, or in requestResources up to the
\* tentative allocation.
Execute(t) ==
    LET c == call[t]
        p == ThreadRole(t)
    IN
    /\ c.at = "locked"
    /\ CASE c.op = "setTotalResources" ->
              /\ total_resources' = c.vec
              /\ available' = c.vec
              /\ call' = [call EXCEPT ![t].at = "unlock", ![t].ret = TRUE]
              /\ UNCHANGED <<maximum, allocation, need, phase>>
         [] c.op = "setMaximum" ->
              /\ maximum' = [maximum EXCEPT ![p] = c.vec]
              /\ need' = [need EXCEPT ![p] = VecSub(c.vec, allocation[p])]
              /\ call' = [call EXCEPT ![t].at = "unlock", ![t].ret = TRUE]
              /\ UNCHANGED <<total_resources, available, allocation, phase>>
         [] c.op = "releaseResources" ->
              /\ available' = Released(Ledger, p, c.vec).available
              /\ allocation' = Released(Ledger, p, c.vec).allocation
              /\ need' = Released(Ledger, p, c.vec).need
              /\ phase' = "run"
              /\ call' = [call EXCEPT ![t].at = "unlock", ![t].ret = TRUE]
              /\ UNCHANGED <<total_resources, maximum>>
         [] c.op = "requestResources" ->
              IF ExceedsNeed(Ledger, p, c.vec) \/ NotEnough(Ledger, p, c.vec)
              THEN /\ phase' = "run"
                   /\ call' = [call EXCEPT ![t].at = "unlock",
                                           ![t].ret = FALSE]
                   /\ UNCHANGED <<total_resources, available, maximum,
                                  allocation, need>>
              ELSE /\ available' = Allocate(Ledger, p, c.vec).available
                   /\ allocation' = Allocate(Ledger, p, c.vec).allocation
                   /\ need' = Allocate(Ledger, p, c.vec).need
                   /\ phase' = "run"
                   /\ call' = [call EXCEPT ![t].at = "isSafe"]
                   /\ UNCHANGED <<total_resources, maximum>>
    /\ UNCHANGED <<num_processes, last, mtx>>

\* requestResources: if (isSafe()) return true; else roll back, return false.
SafetyCheck(t) ==
    LET c == call[t]
        p == ThreadRole(t)
    IN
    /\ c.at = "isSafe"
    /\ IF isSafeOf(Ledger)
       THEN /\ call' = [call EXCEPT ![t].at = "unlock", ![t].ret = TRUE]
            /\ UNCHANGED <<available, allocation, need>>
       ELSE /\ available' = Rollback(Ledger, p, c.vec).available
            /\ allocation' = Rollback(Ledger, p, c.vec).allocation
            /\ need' = Rollback(Ledger, p, c.vec).need
            /\ call' = [call EXCEPT ![t].at = "unlock", ![t].ret = FALSE]
    /\ UNCHANGED <<num_processes, total_resources, maximum, phase, last, mtx>>

\* The method returns: the lock_guard's destructor unlocks mtx.
Unlock(t) ==
    /\ call[t].at = "unlock"
    /\ mtx' = "free"
    /\ call' = [call EXCEPT ![t] = NoCall]
    /\ last' = [op |-> call[t].op, process |-> ThreadRole(t),
                vec |-> call[t].vec, ret |-> call[t].ret]
    /\ UNCHANGED <<num_processes, total_resources, available, maximum,
                   allocation, need, phase>>

InitLock ==
    /\ Constructed(LedgerRoles)
    /\ NoCoordinator
    /\ LockIdle
    /\ NoQueues
    /\ NoChallans
    /\ NoTraffic

Invokes == /\ \E t \in Threads, op \in Methods :
                  \E vec \in ArgumentsOf(op) : Invoke(t, op, vec)
           /\ UNCHANGED <<coordVars, chanVars, billVars, trafficVars>>

Locks == /\ \E t \in Threads : Lock(t)
         /\ UNCHANGED <<coordVars, chanVars, billVars, trafficVars>>

Executes == /\ \E t \in Threads : Execute(t)
            /\ UNCHANGED <<coordVars, chanVars, billVars, trafficVars>>

Checks == /\ \E t \in Threads : SafetyCheck(t)
          /\ UNCHANGED <<coordVars, chanVars, billVars, trafficVars>>

Unlocks == /\ \E t \in Threads : Unlock(t)
           /\ UNCHANGED <<coordVars, chanVars, billVars, trafficVars>>

NextLock == Invokes \/ Locks \/ Executes \/ Checks \/ Unlocks

SpecLock == InitLock /\ [][NextLock]_vars

\* The thread is inside a locked method: past the lock_guard's constructor
\* and not yet returned.
Inside(t) == call[t].at \in {"locked", "isSafe", "unlock"}

\* What the call c of role p, run alone from the ledger S, returns and leaves
\* behind.
RunAlone(S, p, c) ==
    CASE c.op = "setTotalResources" ->
           [ret |-> TRUE,
            ledger |-> [S EXCEPT !.total_resources = c.vec,
                                 !.available = c.vec]]
      [] c.op = "setMaximum" ->
           [ret |-> TRUE,
            ledger |-> [S EXCEPT !.maximum[p] = c.vec,
                                 !.need[p] = VecSub(c.vec, S.allocation[p])]]
      [] c.op = "releaseResources" ->
           [ret |-> TRUE,
            ledger |-> [S EXCEPT !.available = VecAdd(@, c.vec),
                                 !.allocation[p] = VecSub(@, c.vec),
                                 !.need[p] = VecAdd(@, c.vec)]]
      [] c.op = "requestResources" ->
           LET fits == VecLeq(c.vec, S.need[p]) /\ VecLeq(c.vec, S.available)
               T == [S EXCEPT !.available = VecSub(@, c.vec),
                              !.allocation[p] = VecAdd(@, c.vec),
                              !.need[p] = VecSub(@, c.vec)]
           IN IF fits /\ HasSafeOrder(T)
              THEN [ret |-> TRUE, ledger |-> T]
              ELSE [ret |-> FALSE, ledger |-> S]

\* C17: the calls are linearized in the order in which they take the mutex:
\* at most one thread at a time is inside a locked method, so none reads
\* another's tentative allocation, and when a call returns its return value
\* and the ledger equal what that call, run alone, makes of the ledger it
\* found when it took the lock.
C17_Linearized ==
    [][/\ Cardinality({t \in Threads : Inside(t)'}) <= 1
       /\ \A t \in Threads :
            (call[t].at = "unlock" /\ call'[t].at = "idle")
            => LET out == RunAlone(call[t].snap, ThreadRole(t), call[t])
               IN /\ call[t].ret = out.ret
                  /\ FullLedger = out.ledger]_vars

C17_Witness ==
    \E t \in Threads, u \in Threads :
        /\ call[t].at = "unlock" /\ call[t].op = "requestResources"
        /\ call[t].ret = FALSE
        /\ call[t].vec = Unit(ACTIVE_VEHICLES_SEM)
        /\ call[t].snap.available = Vec(0, 1)
        /\ call[t].snap.need[ThreadRole(t)] = Vec(1, 1)
        /\ call[u].at = "lock" /\ call[u].op = "requestResources"

-----------------------------------------------------------------------------
(* The billing side of ProjectPhil.cpp: challanGeneratorProcess reads the   *)
(* speed violations the parent sends and the payments stripePaymentProcess  *)
(* sends, and keeps one Challan per number plate in its map challans.       *)

\* Largest number of messages the model lets wait in one queue here.
MaxPending == 2

\* Largest value the model lets the clock reach.
MaxTime == 1

\* SpeedViolationMsg as the parent fills it in: the number plate and
\* vehicleType 1 (LIGHT), 2 (HEAVY) or 3 (EMERGENCY).
SpeedViolationMsgs == [vehicleID : ViolationIDs, vehicleType : {1, 3}]

\* PaymentMsg as stripePaymentProcess fills it in: a plate drawn from the
\* range the vehicles' plates are drawn from ("ABC-" and rand() % 9999), and
\* paid always true.
PaymentMsgs == [vehicleID : ViolationIDs, paid : {TRUE}]

\* The messages a sender may hand to mq_send.
ReportsOf(s) == IF s = "speedManager" THEN SpeedViolationMsgs ELSE PaymentMsgs

\* A vehicleType that is billed: LIGHT or HEAVY; anything else is exempt.
Billed(vehicleType) == vehicleType \in {1, 2}

\* ch.amount: the fine plus 17 percent.
AmountOf(vehicleType) == IF vehicleType = 1 THEN 5850 ELSE 8190

\* The Challan built from a violation received at time t: paid = false,
\* issueDate = time(NULL), dueDate three days later.
NewChallan(msg, t) ==
    [vehicleID |-> msg.vehicleID,
     amount    |-> AmountOf(msg.vehicleType),
     paid      |-> FALSE,
     issueDate |-> t,
     dueDate   |-> t + 3 * 24 * 3600,
     vtype     |-> msg.vehicleType]

\* A challan is stored only under a plate the map does not hold yet.
StoredIfAbsent(map, ch) ==
    IF ch.vehicleID \in DOMAIN map THEN map
    ELSE [id \in DOMAIN map \cup {ch.vehicleID} |->
             IF id = ch.vehicleID THEN ch ELSE map[id]]

\* challans[ch.vehicleID] = ch.
Stored(map, ch) ==
    [id \in DOMAIN map \cup {ch.vehicleID} |->
        IF id = ch.vehicleID THEN ch ELSE map[id]]

\* The payment is applied: it != challans.end() && pmsg->paid.
Matches(map, pmsg) == pmsg.vehicleID \in DOMAIN map /\ pmsg.paid

\* Every challan in the map is marked paid.
MarkedPaidAll(map, id) == [i \in DOMAIN map |-> [map[i] EXCEPT !.paid = TRUE]]

\* it->second.paid = true.
MarkedPaid(map, id) == [map EXCEPT ![id].paid = TRUE]

\* What the map holds for a number plate.
Found(map, id) ==
    IF id \notin DOMAIN map THEN "none"
    ELSE IF map[id].paid THEN "paid" ELSE "unpaid"

\* challanGeneratorProcess, first half of the loop body: mq_receive on the
\* violations queue returns a message; a LIGHT or HEAVY vehicle gets a new
\* Challan stored under its plate and the loop goes on to the payments
\* queue, an exempt vehicle sends the loop back to its top (continue).
IssueChallan ==
    /\ ReceiveViolation
    /\ LET msg == Head(mq["/smart_to_challan"])
       IN /\ IF Billed(msg.vehicleType)
             THEN /\ challans' = Stored(challans, NewChallan(msg, now))
                  /\ consumer' = "receive_payment"
             ELSE /\ UNCHANGED challans
                  /\ consumer' = "receive_violation"
          /\ handled' = [queue |-> "/smart_to_challan", msg |-> msg,
                         found |-> Found(challans, msg.vehicleID)]
    /\ UNCHANGED now

\* challanGeneratorProcess, second half of the loop body: mq_receive on the
\* payments queue returns a message; a challan stored under its plate is
\* marked paid; then the loop sleeps and starts again.
ReconcilePayment ==
    /\ ReceivePayment
    /\ LET pmsg == Head(mq["/stripe_to_challan"])
       IN /\ challans' = IF Matches(challans, pmsg)
                         THEN MarkedPaid(challans, pmsg.vehicleID)
                         ELSE challans
          /\ handled' = [queue |-> "/stripe_to_challan", msg |-> pmsg,
                         found |-> Found(challans, pmsg.vehicleID)]
    /\ UNCHANGED now

\* A sender has filled in a message and calls mq_send.
ReportEvent(s, m) ==
    /\ Len(mq[QueueOf(s)]) < MaxPending
    /\ PrepareSend(s, m)

\* A second passes.
ClockTick ==
    /\ now < MaxTime
    /\ now' = now + 1
    /\ UNCHANGED <<challans, handled>>

\* Nothing handled yet.
NothingHandled == [queue |-> "", msg |-> <<>>, found |-> "none"]

\* The queues created and the children forked: the map of challans is empty.
InitChallan ==
    /\ Constructed(LedgerRoles)
    /\ NoCoordinator
    /\ NoThreads
    /\ ChanIdle
    /\ challans = <<>>
    /\ now = 0
    /\ handled = NothingHandled
    /\ NoTraffic

Report == /\ \E s \in Producers : \E m \in ReportsOf(s) : ReportEvent(s, m)
          /\ UNCHANGED <<ledgerVars, coordVars, lockVars, billVars, trafficVars>>

Issue == /\ IssueChallan
         /\ UNCHANGED <<ledgerVars, coordVars, lockVars, trafficVars>>

Reconcile == /\ ReconcilePayment
             /\ UNCHANGED <<ledgerVars, coordVars, lockVars, trafficVars>>

Tick == /\ ClockTick
        /\ UNCHANGED <<ledgerVars, coordVars, lockVars, chanVars, trafficVars>>

NextChallan == Report \/ Send \/ SendFails \/ Issue \/ Reconcile \/ Tick

SpecChallan == InitChallan /\ [][NextChallan]_vars

\* C21: a receive of challanGeneratorProcess never blocks: whenever it
\* stands at mq_receive on the violations queue or on the payments queue and
\* that queue is empty, it can take a step that leaves the queues as they
\* are and moves it on to the next statement of its loop.
C21_ReceiveNeverBlocks ==
    \A q \in Queues :
        (/\ consumer = (IF q = "/smart_to_challan" THEN "receive_violation"
                        ELSE "receive_payment")
         /\ mq[q] = <<>>)
        => ENABLED ((Issue \/ Reconcile) /\ mq' = mq /\ consumer' # consumer)

\* The step takes the head of the violations queue.
ViolationHandled ==
    /\ mq["/smart_to_challan"] # <<>>
    /\ mq'["/smart_to_challan"] = Tail(mq["/smart_to_challan"])
    /\ consumer = "receive_violation"

\* The step takes the head of the payments queue.
PaymentHandled ==
    /\ mq["/stripe_to_challan"] # <<>>
    /\ mq'["/stripe_to_challan"] = Tail(mq["/stripe_to_challan"])
    /\ consumer = "receive_payment"

\* C22: at most one active challan per vehicle: when a violation is handled
\* for a vehicle whose challan is unpaid, the violation is suppressed: the
\* map of challans, and with it that vehicle's record (amount, issue date,
\* due date, paid = false), stays exactly as it was.
C22_DuplicateSuppressed ==
    [][(/\ ViolationHandled
        /\ Found(challans, Head(mq["/smart_to_challan"]).vehicleID) = "unpaid")
       => challans' = challans]_vars

\* C23: an unpaid challan becomes paid exactly once, by the first payment
\* for its vehicle: a payment (paid = true) handled while the vehicle's
\* challan is unpaid sets paid on that record and changes nothing else; a
\* payment for a vehicle with no challan, or with a paid one, changes no
\* record and creates none; and no other step turns an unpaid challan into a
\* paid one.
C23_PaidExactlyOnce ==
    [][/\ PaymentHandled =>
            LET pmsg == Head(mq["/stripe_to_challan"])
                id == pmsg.vehicleID
            IN IF Found(challans, id) = "unpaid" /\ pmsg.paid
               THEN challans' =
                        [i \in DOMAIN challans |->
                            IF i = id
                            THEN [vehicleID |-> challans[i].vehicleID,
                                  amount    |-> challans[i].amount,
                                  paid      |-> TRUE,
                                  issueDate |-> challans[i].issueDate,
                                  dueDate   |-> challans[i].dueDate,
                                  vtype     |-> challans[i].vtype]
                            ELSE challans[i]]
               ELSE challans' = challans
       /\ \A i \in DOMAIN challans :
            (/\ ~challans[i].paid
             /\ i \in DOMAIN challans'
             /\ challans'[i].paid)
            => /\ PaymentHandled
               /\ Head(mq["/stripe_to_challan"]).vehicleID = i]_vars

C23_Witness ==
    /\ handled.queue = "/stripe_to_challan"
    /\ handled.found = "unpaid"
    /\ handled.msg.paid
    /\ challans[handled.msg.vehicleID].paid
    /\ \E i \in DOMAIN challans : ~challans[i].paid

-----------------------------------------------------------------------------
(* The threads of the parent in ProjectPhil.cpp: they call sem_wait and     *)
(* sem_post on the two named semaphores directly, and speedManagerThread    *)
(* and handleCollisionsAndCleanup call mq_send while they hold              *)
(* activeVehiclesSem.                                                       *)

\* The main loop (processQueues, visualizeTraffic,
\* handleCollisionsAndCleanup) and the worker threads that use a semaphore.
PhilThreads == {"mainLoop", "spawnVehicles", "speedManager", "outOfOrder"}

\* The number plate of the vehicles on the roster here.
PhilPlates == {"ABC-1"}

\* The statements of a thread's loop body that matter here.
PhilWait(res, fail) == [op |-> "sem_wait", res |-> res, fail |-> fail]

PhilPost(res) == [op |-> "sem_post", res |-> res, fail |-> 0]

PhilWork == [op |-> "work", res |-> LANE_SEM, fail |-> 0]

PhilSend == [op |-> "send", res |-> ACTIVE_VEHICLES_SEM, fail |-> 0]

\* The loop bodies with an outOfOrderThread that takes laneSem while it
\* holds activeVehiclesSem.
PhilScriptActiveFirst(w) ==
    CASE w = "mainLoop" ->
           <<PhilWait(LANE_SEM, 6),
             PhilWait(ACTIVE_VEHICLES_SEM, 5),
             PhilWork,
             PhilPost(ACTIVE_VEHICLES_SEM),
             PhilPost(LANE_SEM),
             PhilWait(ACTIVE_VEHICLES_SEM, 1),
             PhilWork,
             PhilPost(ACTIVE_VEHICLES_SEM),
             PhilWait(ACTIVE_VEHICLES_SEM, 1),
             PhilSend,
             PhilPost(ACTIVE_VEHICLES_SEM)>>
      [] w = "spawnVehicles" ->
           <<PhilWait(LANE_SEM, 1), PhilWork, PhilPost(LANE_SEM)>>
      [] w = "speedManager" ->
           <<PhilWait(ACTIVE_VEHICLES_SEM, 1), PhilSend,
             PhilPost(ACTIVE_VEHICLES_SEM)>>
      [] w = "outOfOrder" ->
           <<PhilWait(ACTIVE_VEHICLES_SEM, 1), PhilWait(LANE_SEM, 5),
             PhilWork, PhilPost(LANE_SEM), PhilPost(ACTIVE_VEHICLES_SEM)>>

\* The loop body of each thread as the sequence of its semaphore calls, the
\* work between them and the places where it may call mq_send; `fail` is the
\* statement a failed sem_wait continues with.
PhilScript(w) ==
    CASE w = "mainLoop" ->
           <<PhilWait(LANE_SEM, 6),              \* processQueues
             PhilWait(ACTIVE_VEHICLES_SEM, 5),
             PhilWork,
             PhilPost(ACTIVE_VEHICLES_SEM),
             PhilPost(LANE_SEM),
             PhilWait(ACTIVE_VEHICLES_SEM, 1),   \* visualizeTraffic
             PhilWork,
             PhilPost(ACTIVE_VEHICLES_SEM),
             PhilWait(ACTIVE_VEHICLES_SEM, 1),   \* handleCollisionsAndCleanup
             PhilSend,
             PhilPost(ACTIVE_VEHICLES_SEM)>>
      [] w = "spawnVehicles" ->
           <<PhilWait(LANE_SEM, 1), PhilWork, PhilPost(LANE_SEM)>>
      [] w = "speedManager" ->
           <<PhilWait(ACTIVE_VEHICLES_SEM, 1), PhilSend,
             PhilPost(ACTIVE_VEHICLES_SEM)>>
      [] w = "outOfOrder" ->
           <<PhilWait(ACTIVE_VEHICLES_SEM, 1), PhilWork,
             PhilPost(ACTIVE_VEHICLES_SEM)>>

\* The statement the thread stands at.
PhilAt(w) == PhilScript(w)[pc[w]]

\* The statement after it; the loop body starts again after its last one.
PhilNext(w) == IF pc[w] = Len(PhilScript(w)) THEN 1 ELSE pc[w] + 1

\* sem_wait returns 0.
PhilSemWait(w) ==
    /\ PhilAt(w).op = "sem_wait"
    /\ SemAvailable(PhilAt(w).res)
    /\ sem' = [sem EXCEPT ![PhilAt(w).res] = @ - 1]
    /\ pc' = [pc EXCEPT ![w] = PhilNext(w)]
    /\ UNCHANGED <<portalLedger, entry, laneQueues, activeVehicles, chanVars>>

\* sem_wait returns -1: perror, then continue or return.
PhilSemWaitFails(w) ==
    /\ PhilAt(w).op = "sem_wait"
    /\ pc' = [pc EXCEPT ![w] = PhilAt(w).fail]
    /\ UNCHANGED <<sem, portalLedger, entry, laneQueues, activeVehicles,
                   chanVars>>

\* sem_post.
PhilSemPost(w) ==
    /\ PhilAt(w).op = "sem_post"
    /\ sem' = [sem EXCEPT ![PhilAt(w).res] = Posted(@)]
    /\ pc' = [pc EXCEPT ![w] = PhilNext(w)]
    /\ UNCHANGED <<portalLedger, entry, laneQueues, activeVehicles, chanVars>>

\* The code between two semaphore calls.
PhilBody(w) ==
    /\ PhilAt(w).op = "work"
    /\ pc' = [pc EXCEPT ![w] = PhilNext(w)]
    /\ UNCHANGED <<sem, portalLedger, entry, laneQueues, activeVehicles,
                   chanVars>>

\* The loop over activeVehicles finds a vehicle to report and calls mq_send
\* on mqSmartToChallan.
PhilDetect(w, id) ==
    /\ PhilAt(w).op = "send"
    /\ PrepareSend("speedManager", id)
    /\ UNCHANGED coordVars

\* The loop over activeVehicles is through.
PhilScanned(w) ==
    /\ PhilAt(w).op = "send"
    /\ producer["speedManager"].at = "idle"
    /\ pc' = [pc EXCEPT ![w] = PhilNext(w)]
    /\ UNCHANGED <<sem, portalLedger, entry, laneQueues, activeVehicles,
                   chanVars>>

\* stripePaymentProcess has filled in a payment and calls mq_send.
PhilPayment(id) == PrepareSend("stripePayment", id)

\* The semaphores opened with value 1, the queues created, the children
\* forked and the threads started.
InitPhil ==
    /\ Constructed(LedgerRoles)
    /\ sem = [r \in Resources |-> 1]
    /\ pc = [w \in PhilThreads |-> 1]
    /\ portalLedger = <<>>
    /\ entry = <<>>
    /\ laneQueues = 0
    /\ activeVehicles = 0
    /\ NoThreads
    /\ ChanIdle
    /\ NoChallans
    /\ NoTraffic

Take == /\ \E w \in PhilThreads : PhilSemWait(w)
        /\ UNCHANGED <<ledgerVars, lockVars, billVars, trafficVars>>

TakeFails == /\ \E w \in PhilThreads : PhilSemWaitFails(w)
             /\ UNCHANGED <<ledgerVars, lockVars, billVars, trafficVars>>

Give == /\ \E w \in PhilThreads : PhilSemPost(w)
        /\ UNCHANGED <<ledgerVars, lockVars, billVars, trafficVars>>

Run == /\ \E w \in PhilThreads : PhilBody(w)
       /\ UNCHANGED <<ledgerVars, lockVars, billVars, trafficVars>>

Detect == /\ \E w \in PhilThreads, id \in PhilPlates : PhilDetect(w, id)
          /\ UNCHANGED <<ledgerVars, lockVars, billVars, trafficVars>>

Scanned == /\ \E w \in PhilThreads : PhilScanned(w)
           /\ UNCHANGED <<ledgerVars, lockVars, billVars, trafficVars>>

Pay == /\ \E id \in PaymentIDs : PhilPayment(id)
       /\ UNCHANGED <<ledgerVars, coordVars, lockVars, billVars, trafficVars>>

NextPhil == \/ Take
            \/ TakeFails
            \/ Give
            \/ Run
            \/ Detect
            \/ Scanned
            \/ Pay
            \/ Send
            \/ SendFails
            \/ Receive

SpecPhil == InitPhil /\ [][NextPhil]_vars

\* The thread has taken the semaphore and not yet posted it.
PhilHolds(w, res) ==
    LET done == SubSeq(PhilScript(w), 1, pc[w] - 1)
        waits == {k \in 1..Len(done) :
                      done[k].op = "sem_wait" /\ done[k].res = res}
        posts == {k \in 1..Len(done) :
                      done[k].op = "sem_post" /\ done[k].res = res}
    IN Cardinality(waits) > Cardinality(posts)

\* The thread is in sem_wait and the semaphore's value is 0.
PhilBlocked(w) ==
    /\ PhilAt(w).op = "sem_wait"
    /\ sem[PhilAt(w).res] = 0

\* speedManagerThread is inside mq_send and the violations queue is full.
SenderStalled ==
    /\ PhilAt("speedManager").op = "send"
    /\ producer["speedManager"].at = "mq_send"
    /\ Len(mq["/smart_to_challan"]) = 10

\* C25: backpressure on the violations queue delays the speed monitor only:
\* while speedManagerThread is blocked in mq_send on the full queue, no other
\* thread is blocked in sem_wait on a semaphore that speedManagerThread
\* holds, so the others can still take and give back the shared resources.
C25_BackpressureIsolated ==
    SenderStalled =>
        \A w \in PhilThreads \ {"speedManager"} :
            ~(PhilBlocked(w) /\ PhilHolds("speedManager", PhilAt(w).res))

-----------------------------------------------------------------------------
(* The billing side under fair scheduling: challanGeneratorProcess takes a  *)
(* message whenever its mq_receive can return, and stripePaymentProcess,    *)
(* which sends a payment every 20 seconds for as long as the system runs,   *)
(* keeps sending and its mq_send succeeds again and again.  Nothing obliges *)
(* the parent to report violations.                                         *)

StripeReports ==
    /\ \E m \in PaymentMsgs : ReportEvent("stripePayment", m)
    /\ UNCHANGED <<ledgerVars, coordVars, lockVars, billVars, trafficVars>>

StripeSends ==
    /\ MqSend("stripePayment")
    /\ UNCHANGED <<ledgerVars, coordVars, lockVars, billVars, trafficVars>>

FairChallan ==
    /\ SpecChallan
    /\ WF_vars(Issue)
    /\ WF_vars(Reconcile)
    /\ WF_vars(StripeReports)
    /\ SF_vars(StripeSends)

\* C26: every speed violation that has reached the violations queue is
\* eventually received by challanGeneratorProcess, and on receiving it the
\* process has a challan open for that vehicle: the one it found, or one it
\* created because the vehicle had none open.
C26_ViolationDelivered ==
    \A m \in SpeedViolationMsgs :
        (/\ mq["/smart_to_challan"] # <<>>
         /\ Head(mq["/smart_to_challan"]) = m)
        ~> (/\ handled.queue = "/smart_to_challan"
            /\ handled.msg = m
            /\ Found(challans, m.vehicleID) = "unpaid")

\* C27: every payment that has reached the payments queue while the
\* vehicle's challan is unpaid is eventually applied: the challan becomes
\* paid, whether or not another violation is ever reported.
C27_PaymentReconciled ==
    \A p \in PaymentMsgs :
        (/\ \E k \in 1..Len(mq["/stripe_to_challan"]) :
                mq["/stripe_to_challan"][k] = p
         /\ Found(challans, p.vehicleID) = "unpaid")
        ~> Found(challans, p.vehicleID) = "paid"

-----------------------------------------------------------------------------
(* requestResources and releaseResources called on any ledger: the fields   *)
(* hold any non-negative values, and the caller of releaseResources keeps   *)
(* the contract (it gives back no more than the role holds).  SpecRelease   *)
(* has the releases alone, SpecRoundTrip requests and releases.             *)

\* A ledger of LedgerRoles roles holding any non-negative available,
\* allocation and need; maximum and total_resources are the ones that make
\* it consistent.
InitLedgers ==
    \E av \in EntryVectors, al \in [0..(LedgerRoles - 1) -> EntryVectors],
       nd \in [0..(LedgerRoles - 1) -> EntryVectors] :
        /\ num_processes = LedgerRoles
        /\ available = av
        /\ allocation = al
        /\ need = nd
        /\ maximum = [p \in 0..(LedgerRoles - 1) |-> VecAdd(al[p], nd[p])]
        /\ total_resources =
             VecAdd(av, SumAllocation([allocation |-> al],
                                      0..(LedgerRoles - 1)))
        /\ phase = "run"
        /\ last = [op |-> "BankersAlgorithm"]
        /\ EnvIdle

\* requestResources(process, request); entry keeps the ledger as it was at
\* the call.
Ask ==
    /\ \E p \in Processes, request \in Vectors : RequestResources(p, request)
    /\ entry' = Ledger
    /\ UNCHANGED <<sem, pc, portalLedger, laneQueues, activeVehicles,
                   lockVars, chanVars, billVars, trafficVars>>

\* The call releaseResources(p, release) comes right after a granted
\* requestResources(p, release).
Undoes(p, release) ==
    /\ last.op = "requestResources"
    /\ last.ret
    /\ last.process = p
    /\ last.vec = release

\* releaseResources(process, release) by a caller that keeps the contract;
\* the ledger noted at the request is kept only by the release that gives
\* back at once what the request was granted.
GiveBack ==
    /\ \E p \in Processes, release \in Vectors :
           /\ VecLeq(release, allocation[p])
           /\ ReleaseResources(p, release)
           /\ entry' = IF Undoes(p, release) THEN entry ELSE <<>>
    /\ UNCHANGED <<sem, pc, portalLedger, laneQueues, activeVehicles,
                   lockVars, chanVars, billVars, trafficVars>>

NextRelease == Release

SpecRelease == InitLedgers /\ [][NextRelease]_vars

NextRoundTrip == Ask \/ GiveBack

SpecRoundTrip == InitLedgers /\ [][NextRoundTrip]_vars

\* The ledger as it was before the releaseResources call that led to the
\* current state.
BeforeRelease ==
    [available  |-> VecSub(available, last.vec),
     allocation |-> [allocation EXCEPT ![last.process] = VecAdd(@, last.vec)],
     need       |-> [need EXCEPT ![last.process] = VecSub(@, last.vec)]]

\* C28: release preserves safety: when the ledger has a safe ordering and
\* releaseResources(role, rel) is called with rel <= allocation[role] in
\* every kind, the ledger after the call has a safe ordering too.
C28_ReleaseKeepsSafe ==
    [][(/\ IsReleaseStep
        /\ VecLeq(last'.vec, allocation[last'.process])
        /\ HasSafeOrder(Ledger))
       => HasSafeOrder(Ledger')]_vars

\* A role has given back units on a safe ledger on which the other role
\* still needs units, and the ledger is safe after the call.
C28_Witness ==
    /\ last.op = "releaseResources"
    /\ last.vec # ZeroVec
    /\ HasSafeOrder(BeforeRelease)
    /\ \E q \in Processes \ {last.process} :
           need[q] # ZeroVec /\ allocation[q] # ZeroVec
    /\ HasSafeOrder(Ledger)

\* C29: round trip: a requestResources(role, req) that returns true followed
\* at once by releaseResources(role, req) leaves available, allocation and
\* need exactly as they were before the request.
C29_RoundTrip ==
    [][(/\ last.op = "requestResources"
        /\ last.ret
        /\ IsReleaseStep
        /\ last'.process = last.process
        /\ last'.vec = last.vec)
       => LedgerBecomes(entry)]_vars

\* A granted request for some units has been undone by the release of the
\* same units, on a ledger where the role held units before.
C29_Witness ==
    /\ last.op = "releaseResources"
    /\ last.vec # ZeroVec
    /\ entry # <<>>
    /\ Ledger = entry
    /\ allocation[last.process] # ZeroVec

-----------------------------------------------------------------------------
(* The callers of releaseResource in main.cpp *)

\* The units of the kind that the ledger of the worker's process counts as
\* allocated to the worker's role.
AllocatedTo(w, res) == LedgerOf(w).allocation[RoleOf(w)][res]

\* The step is worker w calling releaseResource(RoleOf(w), res).
CallsRelease(w, res) ==
    /\ pc'[w].at = ReleaseOrder[1]
    /\ pc[w].at # ReleaseOrder[1]
    /\ pc'[w].res = res

\* The step is worker w returning from releaseResource(RoleOf(w), res).
ReturnsFromRelease(w, res) ==
    /\ pc[w].at = ReleaseOrder[2]
    /\ pc'[w].at # ReleaseOrder[2]
    /\ pc[w].res = res

\* C30: the callers in main.cpp never release more than was granted: a
\* worker calls releaseResource(role, kind) only from the code that follows
\* its own acquireResource(role, kind) returning true, with the unit still
\* allocated to its role and the semaphore taken; the call gives back that
\* one unit; a worker whose acquireResource returned false goes back to the
\* top of its loop without releasing; and so every allocation entry stays in
\* {0, 1} and no semaphore's value exceeds 1.
C30_CallersBalanced ==
    [][/\ \A w \in Workers, res \in Resources :
              /\ CallsRelease(w, res) =>
                     /\ pc[w].at = "held"
                     /\ pc[w].res = res
                     /\ AllocatedTo(w, res) = 1
                     /\ sem[res] = 0
              /\ ReturnsFromRelease(w, res) =>
                     /\ AllocatedTo(w, res) = 1
                     /\ AllocatedTo(w, res)' = 0
              /\ (pc[w].at # "held" /\ pc'[w].at = "held") =>
                     /\ pc[w].at = "sem_wait"
                     /\ AllocatedTo(w, pc[w].res) = 1
              /\ pc[w].at = "return_false" =>
                     pc'[w].at \in {"return_false", "idle"}
       /\ \A q \in Processes, res \in Resources :
              /\ allocation'[q][res] \in {0, 1}
              /\ portalLedger'.allocation[q][res] \in {0, 1}
       /\ \A res \in Resources : sem'[res] \in {0, 1}]_vars

\* A worker is inside releaseResource, between the sem_post and the ledger
\* update, with its unit still allocated, while another worker's
\* acquireResource has just returned false, after vehicles were queued by
\* earlier acquire/release pairs.
C30_Witness ==
    \E w, v \in Workers :
        /\ w # v
        /\ pc[w].at = "ledger_release"
        /\ AllocatedTo(w, pc[w].res) = 1
        /\ pc[v].at = "return_false"
        /\ laneQueues + activeVehicles > 0

-----------------------------------------------------------------------------
(* A worker that stops inside releaseResource, after sem_post and before    *)
(* banker.releaseResources (main.cpp lines 238-241)                         *)

\* The worker stops (its thread or process ends) between the sem_post and
\* the ledger update of releaseResource; it takes no further step.
StopsInRelease(w) ==
    /\ pc[w].at = "ledger_release"
    /\ pc' = [pc EXCEPT ![w].at = "stopped"]
    /\ UNCHANGED <<num_processes, total_resources, available, maximum,
                   allocation, need, phase, last, sem, portalLedger, entry,
                   laneQueues, activeVehicles>>

Stop == /\ \E w \in Workers : StopsInRelease(w)
        /\ UNCHANGED <<lockVars, chanVars, billVars, trafficVars>>

NextCrash == NextMain \/ Stop

SpecCrash == InitMain /\ [][NextCrash]_vars

\* C31: once a worker has stopped after the sem_post of releaseResource and
\* before the ledger update, the ledger of its process counts the unit as
\* allocated to its role (allocation[role][kind] = 1, available[kind] = 0)
\* in every later state, whatever the other workers do.
C31_CrashWindow ==
    \A w \in Workers :
        pc[w].at = "stopped" =>
            /\ AllocatedTo(w, pc[w].res) = 1
            /\ LedgerOf(w).available[pc[w].res] = 0

\* A worker of the parent has stopped in the window, the semaphore it posted
\* has since been taken by the portal, and another worker of the parent has
\* asked the ledger and been denied.
C31_Witness ==
    \E w, v \in Workers \ {"userPortal"} :
        /\ w # v
        /\ pc[w].at = "stopped"
        /\ HoldsSem("userPortal", pc[w].res)
        /\ pc[v].at = "return_false"
        /\ last.op = "requestResources"
        /\ last.process = RoleOf(v)

-----------------------------------------------------------------------------
(* The workers of main.cpp under fair scheduling: every thread keeps        *)
(* running, so a worker inside acquireResource or releaseResource or in its *)
(* critical section takes its next step, and a worker in sem_wait is woken  *)
(* if the semaphore is free again and again.  When a worker at the top of   *)
(* its loop asks again is left open.  Nothing in the code orders the        *)
(* requests of the workers: acquireResource asks once and returns false on  *)
(* a denial.                                                                *)

\* The workers whose loops retry acquireResource after every denial.
Retriers == {"spawnVehicles", "speedManager"}

\* A step of worker w after its banker.requestResources has returned, other
\* than a failing sem_wait.
WorkerStep(w) ==
    /\ \/ SemWait(w)
       \/ RollbackGrant(w)
       \/ ReturnFalse(w)
       \/ Body(w)
       \/ SemPost(w)
       \/ LedgerRelease(w)
    /\ UNCHANGED <<lockVars, chanVars, billVars, trafficVars>>

\* The sem_wait of worker w returns 0.
Wakes(w) ==
    /\ SemWait(w)
    /\ UNCHANGED <<lockVars, chanVars, billVars, trafficVars>>

FairMain ==
    /\ SpecMain
    /\ \A w \in Workers : WF_vars(WorkerStep(w))
    /\ \A w \in Retriers : SF_vars(Wakes(w))

\* Worker w calls acquireResource again and again.
Retries(w) == []<>(pc[w].at # "idle")

-----------------------------------------------------------------------------
(* The ledger under the configuration of initializeBankers *)

\* The roles with a non-zero allocation row in the ledger fields L.
Holders(L) == {p \in Processes : L.allocation[p] # ZeroVec}

\* C33: with totals [1,1] and maximum [1,1] for all NUM_PROCESSES roles, at
\* most one role has a non-zero allocation in a process's ledger at any time:
\* while a role holds a unit of either kind, every request for units by a
\* different role, even for the other, free kind, returns false.
C33_OneHolder ==
    \A L \in {Ledger, portalLedger} :
        /\ Cardinality(Holders(L)) <= 1
        /\ \A p \in Holders(L) :
               \A q \in Processes \ {p}, request \in Vectors \ {ZeroVec} :
                   ~RequestOutcome(L, q, request).ret

\* A role holds the LANE_SEM unit and the request of another role for the
\* free ACTIVE_VEHICLES_SEM unit has just been denied by the safety check.
C33_Witness ==
    /\ allocation[SPAWN_VEHICLES] = Unit(LANE_SEM)
    /\ available = Unit(ACTIVE_VEHICLES_SEM)
    /\ last.op = "requestResources"
    /\ last.process # SPAWN_VEHICLES
    /\ last.vec = Unit(ACTIVE_VEHICLES_SEM)
    /\ ~last.ret
    /\ last.site = "unsafe"

\* The step is the ledger of w's process granting w a unit of kind res:
\* banker.requestResources returns true and w goes on to sem_wait.
GrantedStep(w, res) ==
    /\ pc[w].at # "sem_wait"
    /\ pc'[w].at = "sem_wait"
    /\ pc'[w].res = res

\* C34: ledger approval implies the semaphore is free: whenever the ledger
\* grants a unit of a kind to a worker in acquireResource, no other worker
\* (thread of the parent or the forked user portal) holds that kind's
\* semaphore, so the sem_wait that follows does not block.
C34_GrantImpliesFree ==
    [][\A w \in Workers, res \in Resources :
           GrantedStep(w, res) =>
               /\ \A h \in Workers \ {w} : ~HoldsSem(h, res)
               /\ sem[res] > 0]_vars

\* C36: main-loop progress: while the system is running every call of the
\* main loop returns; the main thread, once in runDeadlockPrevention, leaves
\* it again (and goes on to visualizeTraffic and the next iteration).
C36_MainLoopProgress ==
    (pc["main"].at = "runDeadlockPrevention")
        ~> (pc["main"].at # "runDeadlockPrevention")

-----------------------------------------------------------------------------
(* The traffic lights and the lane queues of main.cpp.  The ledger lets one *)
(* role of the parent hold a unit at a time, so the critical sections of    *)
(* the parent's threads run one after the other: each is one action here.   *)

\* Largest number of vehicles the model lets a lane hold beyond maxCapacity.
MaxExtra == 1

\* LaneQueue::maxCapacity.
maxCapacity == 10

\* directions in initializeTrafficLights and trafficLightControllerThread.
directions == [i \in 0..3 |-> CASE i = 0 -> "North" [] i = 1 -> "South"
                                [] i = 2 -> "East"  [] i = 3 -> "West"]

\* The lanes of the model, in the order std::map iterates laneQueues.
RoadLanes == <<"East1", "North1">>

\* lane.find("North") ... : the direction whose light governs the lane.
DirectionOf(lane) == IF lane = "East1" THEN "East" ELSE "North"

\* The second key the controller writes:
\* directions[currentGreenIndex] + (currentGreenIndex == 0 ? "" : "").
SecondKey(i) == directions[i]

\* trafficLights after the controller sets both keys for index i to state.
LightsSet(lights, i, state) ==
    [d \in DOMAIN lights |->
        IF d \in {directions[i], SecondKey(i)} THEN state ELSE lights[d]]

\* Where the main thread and the controller thread are.
RoadThreads == {"main", "trafficLightController"}

\* The controller's Yellow block (lines 291-298), after the green phase.
TurnYellow ==
    /\ pc["trafficLightController"] = "green"
    /\ trafficLights' = LightsSet(trafficLights, currentGreenIndex, "YELLOW")
    /\ pc' = [pc EXCEPT !["trafficLightController"] = "yellow"]
    /\ UNCHANGED <<currentGreenIndex, queued, activeVehicles>>

\* The Red block (lines 303-310) and the move to the next index (line 313).
TurnRed ==
    /\ pc["trafficLightController"] = "yellow"
    /\ trafficLights' = LightsSet(trafficLights, currentGreenIndex, "RED")
    /\ currentGreenIndex' = (currentGreenIndex + 2) % 4
    /\ pc' = [pc EXCEPT !["trafficLightController"] = "red"]
    /\ UNCHANGED <<queued, activeVehicles>>

\* The Green block (lines 316-323).
TurnGreen ==
    /\ pc["trafficLightController"] = "red"
    /\ trafficLights' = LightsSet(trafficLights, currentGreenIndex, "GREEN")
    /\ pc' = [pc EXCEPT !["trafficLightController"] = "green"]
    /\ UNCHANGED <<currentGreenIndex, queued, activeVehicles>>

\* spawnVehiclesThread with LANE_SEM granted: a vehicle is queued if the
\* lane is below maxCapacity (a heavy vehicle in peak hours is skipped).
SpawnVehicle(lane) ==
    /\ queued[lane] < maxCapacity
    /\ queued' = [queued EXCEPT ![lane] = @ + 1]
    /\ UNCHANGED <<pc, trafficLights, currentGreenIndex, activeVehicles>>

\* outOfOrderThread: a vehicle of the non-empty roster goes out of order and
\* the tow truck is pushed to the front of a lane and onto the roster
\* (lines 468-524); the size of the lane is not looked at.
SummonTowTruck(lane) ==
    /\ activeVehicles > 0
    /\ activeVehicles < MaxActive
    /\ queued[lane] < maxCapacity + MaxExtra
    /\ queued' = [queued EXCEPT ![lane] = @ + 1]
    /\ activeVehicles' = activeVehicles + 1
    /\ UNCHANGED <<pc, trafficLights, currentGreenIndex>>

\* processQueues at the k-th lane: with a GREEN light, a non-empty queue and
\* ACTIVE_VEHICLES_SEM granted the front vehicle moves to the roster;
\* otherwise (light not GREEN, lane empty, or the request denied) the lane
\* is passed over.  After the last lane the main thread enters
\* runDeadlockPrevention and stays there.
VisitLane(k) ==
    LET lane == RoadLanes[k]
        onward == IF k = Len(RoadLanes)
                  THEN [at |-> "runDeadlockPrevention", lane |-> k]
                  ELSE [at |-> "processQueues", lane |-> k + 1]
    IN /\ pc["main"] = [at |-> "processQueues", lane |-> k]
       /\ \/ /\ trafficLights[DirectionOf(lane)] = "GREEN"
             /\ queued[lane] > 0
             /\ activeVehicles < MaxActive
             /\ queued' = [queued EXCEPT ![lane] = @ - 1]
             /\ activeVehicles' = activeVehicles + 1
          \/ UNCHANGED <<queued, activeVehicles>>
       /\ pc' = [pc EXCEPT !["main"] = onward]
       /\ UNCHANGED <<trafficLights, currentGreenIndex>>

\* initializeTrafficLights (lines 245-279), empty lanes (lines 1050-1052),
\* the threads started and the main thread at its first processQueues.
InitRoad ==
    /\ Constructed(LedgerRoles)
    /\ sem = <<>>
    /\ portalLedger = <<>>
    /\ entry = <<>>
    /\ laneQueues = 0
    /\ activeVehicles = 0
    /\ pc = [t \in RoadThreads |->
               IF t = "main" THEN [at |-> "processQueues", lane |-> 1]
               ELSE "green"]
    /\ trafficLights = [d \in {directions[i] : i \in 0..3} |->
                           IF d \in {"North", "South"} THEN "GREEN" ELSE "RED"]
    /\ currentGreenIndex = 0
    /\ queued = [l \in {RoadLanes[k] : k \in 1..Len(RoadLanes)} |-> 0]
    /\ allocatedResources = 0
    /\ NoThreads
    /\ NoQueues
    /\ NoChallans

\* What no action of the road changes.
RoadFrame ==
    UNCHANGED <<ledgerVars, sem, portalLedger, entry, laneQueues,
                allocatedResources, lockVars, chanVars, billVars>>

Yellow == TurnYellow /\ RoadFrame

Red == TurnRed /\ RoadFrame

Green == TurnGreen /\ RoadFrame

Spawn == /\ \E k \in 1..Len(RoadLanes) : SpawnVehicle(RoadLanes[k])
         /\ RoadFrame

Tow == /\ \E k \in 1..Len(RoadLanes) : SummonTowTruck(RoadLanes[k])
       /\ RoadFrame

Visit == /\ \E k \in 1..Len(RoadLanes) : VisitLane(k)
         /\ RoadFrame

NextRoad == Yellow \/ Red \/ Green \/ Spawn \/ Tow \/ Visit

SpecRoad == InitRoad /\ [][NextRoad]_vars

C40_LaneCapacity ==
    \A l \in DOMAIN queued : queued[l] <= maxCapacity

-----------------------------------------------------------------------------
(* The start of main.cpp: the message queues and the three forked processes *)

MQ_PORTAL_STATUS == "/portal_status"

MQ_SMART_TO_CHALLAN == "/smart_to_challan"

MQ_STRIPE_TO_CHALLAN == "/stripe_to_challan"

MQ_CHALLAN_TO_SMART == "/challan_to_smart"

QueueNames == {MQ_PORTAL_STATUS, MQ_SMART_TO_CHALLAN, MQ_STRIPE_TO_CHALLAN,
               MQ_CHALLAN_TO_SMART}

\* The processes main forks, in the order of the forks.
Children == <<"challanGenerator", "stripePayment", "userPortal">>

BootProcesses == {"main"} \cup {Children[k] : k \in 1..Len(Children)}

\* The queues each forked process opens at the top of its function, in
\* order, all without O_CREAT.
Opens(child) ==
    CASE child = "challanGenerator" ->
             <<MQ_SMART_TO_CHALLAN, MQ_CHALLAN_TO_SMART>>
      [] child = "stripePayment" ->
             <<MQ_STRIPE_TO_CHALLAN, MQ_CHALLAN_TO_SMART>>
      [] child = "userPortal" ->
             <<MQ_PORTAL_STATUS, MQ_CHALLAN_TO_SMART, MQ_STRIPE_TO_CHALLAN>>

\* mq_open(name, O_CREAT | ...): the queue exists afterwards; one that
\* already exists is opened as it is.
Created(queues, name) ==
    IF name \in DOMAIN queues
    THEN queues
    ELSE [q \in DOMAIN queues \cup {name} |->
              IF q = name THEN <<>> ELSE queues[q]]

\* mq_unlink(name): the name is gone, whether or not it existed.
Unlinked(queues, name) == [q \in DOMAIN queues \ {name} |-> queues[q]]

\* The queues main unlinks, in the order of the calls.
UnlinkOrder == <<MQ_SMART_TO_CHALLAN, MQ_STRIPE_TO_CHALLAN,
                 MQ_CHALLAN_TO_SMART, MQ_PORTAL_STATUS>>

\* The queues main creates before the forks, in the order of the calls.
CreateOrder == <<MQ_SMART_TO_CHALLAN, MQ_STRIPE_TO_CHALLAN,
                 MQ_CHALLAN_TO_SMART>>

\* main: the next of the four mq_unlink calls.
UnlinkQueues ==
    /\ pc["main"].at = "mq_unlink"
    /\ LET n == pc["main"].n
       IN /\ mq' = Unlinked(mq, UnlinkOrder[n])
          /\ pc' = [pc EXCEPT !["main"] =
                       IF n < Len(UnlinkOrder)
                       THEN [at |-> "mq_unlink", n |-> n + 1]
                       ELSE [at |-> "mq_open", n |-> 1]]

\* main: the next of the three mq_open calls with O_CREAT that follow the
\* unlinks.
CreateQueues ==
    /\ pc["main"].at = "mq_open"
    /\ LET n == pc["main"].n
       IN /\ mq' = Created(mq, CreateOrder[n])
          /\ pc' = [pc EXCEPT !["main"] =
                       IF n < Len(CreateOrder)
                       THEN [at |-> "mq_open", n |-> n + 1]
                       ELSE [at |-> "fork", n |-> 1]]

\* main: fork() of the n-th child, which starts at the top of its function.
Fork ==
    /\ pc["main"].at = "fork"
    /\ LET n == pc["main"].n
       IN pc' = [pc EXCEPT
                    ![Children[n]] = [at |-> "mq_open", n |-> 1],
                    !["main"] = IF n < Len(Children)
                                THEN [at |-> "fork", n |-> n + 1]
                                ELSE [at |-> "mq_open_status", n |-> 0]]
    /\ UNCHANGED mq

\* main: mq_open(MQ_PORTAL_STATUS, O_CREAT | O_RDONLY | O_NONBLOCK), after
\* the forks.
CreateStatusQueue ==
    /\ pc["main"].at = "mq_open_status"
    /\ mq' = Created(mq, MQ_PORTAL_STATUS)
    /\ pc' = [pc EXCEPT !["main"].at = "started"]

\* A forked process: its next mq_open, without O_CREAT.  It fails on a queue
\* that does not exist and the process then calls exit(1).
ChildOpen(child) ==
    /\ pc[child].at = "mq_open"
    /\ LET n == pc[child].n
       IN pc' = [pc EXCEPT ![child] =
                    IF Opens(child)[n] \notin DOMAIN mq
                    THEN [at |-> "exited", n |-> n]
                    ELSE IF n < Len(Opens(child))
                         THEN [at |-> "mq_open", n |-> n + 1]
                         ELSE [at |-> IF child = "userPortal"
                                      THEN "mq_send" ELSE "running",
                               n |-> 0]]
    /\ UNCHANGED mq

\* userPortalProcess: mq_send of the 'active' status once its three queues
\* are open.
SendActive ==
    /\ pc["userPortal"].at = "mq_send"
    /\ mq' = [mq EXCEPT ![MQ_PORTAL_STATUS] = Append(@, "active")]
    /\ pc' = [pc EXCEPT !["userPortal"].at = "running"]

\* main is at the mq_unlink calls; queues of an earlier run that ended
\* without performCleanup may still exist.
InitBoot ==
    /\ Constructed(LedgerRoles)
    /\ sem = <<>>
    /\ portalLedger = <<>>
    /\ entry = <<>>
    /\ laneQueues = 0
    /\ activeVehicles = 0
    /\ pc = [b \in BootProcesses |->
               IF b = "main" THEN [at |-> "mq_unlink", n |-> 1]
               ELSE [at |-> "not_forked", n |-> 0]]
    /\ \E stale \in SUBSET QueueNames : mq = [q \in stale |-> <<>>]
    /\ producer = <<>>
    /\ consumer = ""
    /\ NoThreads
    /\ NoChallans
    /\ NoTraffic

\* What no action of the start changes.
BootFrame ==
    UNCHANGED <<ledgerVars, sem, portalLedger, entry, laneQueues,
                activeVehicles, lockVars, producer, consumer, billVars,
                trafficVars>>

Unlinks == UnlinkQueues /\ BootFrame

Creates == CreateQueues /\ BootFrame

Forks == Fork /\ BootFrame

CreatesStatus == CreateStatusQueue /\ BootFrame

Opening == /\ \E k \in 1..Len(Children) : ChildOpen(Children[k])
           /\ BootFrame

Announces == SendActive /\ BootFrame

NextBoot == Unlinks \/ Creates \/ Forks \/ CreatesStatus \/ Opening
            \/ Announces

SpecBoot == InitBoot /\ [][NextBoot]_vars

\* C37: startup order of the portal-status queue: whenever the user portal
\* is about to open the portal-status queue for writing the parent has
\* created it, so the open succeeds and the portal does not exit at startup.
C37_StatusQueueReady ==
    /\ (pc["userPortal"].at = "mq_open" /\ pc["userPortal"].n = 1)
           => MQ_PORTAL_STATUS \in DOMAIN mq
    /\ pc["userPortal"].at # "exited"

-----------------------------------------------------------------------------
(* The order in which the threads of ProjectPhil.cpp take the semaphores *)

\* The statement of w's loop body at which it took the semaphore it holds:
\* its latest sem_wait on res.
PhilTookAt(w, res) ==
    LET waits == {k \in 1..(pc[w] - 1) :
                      /\ PhilScript(w)[k].op = "sem_wait"
                      /\ PhilScript(w)[k].res = res}
    IN CHOOSE k \in waits : \A j \in waits : j <= k

\* Thread w is blocked in sem_wait on a semaphore that thread v holds.
PhilWaitsFor(w, v) == PhilBlocked(w) /\ PhilHolds(v, PhilAt(w).res)

\* The threads of `set` wait on each other's semaphores: each of them is
\* blocked on a semaphore held by one of them.
PhilCircularWait(set) ==
    /\ set # {}
    /\ \A w \in set : \E v \in set : PhilWaitsFor(w, v)

\* C38: deadlock freedom of the direct semaphore use: a thread that holds
\* both laneSem and activeVehiclesSem took laneSem first, no thread is in
\* sem_wait on laneSem while it holds activeVehiclesSem, and no set of
\* threads waits on each other's semaphores in a cycle.
C38_NoCircularWait ==
    /\ \A w \in PhilThreads :
           (PhilHolds(w, LANE_SEM) /\ PhilHolds(w, ACTIVE_VEHICLES_SEM))
               => PhilTookAt(w, LANE_SEM) < PhilTookAt(w, ACTIVE_VEHICLES_SEM)
    /\ \A w \in PhilThreads :
           ~(/\ PhilAt(w).op = "sem_wait"
             /\ PhilAt(w).res = LANE_SEM
             /\ PhilHolds(w, ACTIVE_VEHICLES_SEM))
    /\ \A set \in SUBSET PhilThreads : ~PhilCircularWait(set)

\* processQueues holds laneSem and is blocked on activeVehiclesSem, which
\* speedManagerThread holds, while spawnVehiclesThread is blocked on laneSem:
\* a chain of waiting threads that does not close.
C38_Witness ==
    /\ PhilWaitsFor("spawnVehicles", "mainLoop")
    /\ PhilWaitsFor("mainLoop", "speedManager")
    /\ ~PhilBlocked("speedManager")

-----------------------------------------------------------------------------
(* The intersection slots of ProjectPhil.cpp: the main loop takes a slot    *)
(* for every vehicle it moves to the roster in processQueues and gives it   *)
(* back when handleCollisionsAndCleanup removes the vehicle.                *)

\* static int totalResources.
totalResources == 2

\* processQueues: the size of activeVehicles at which its loop stops.
RosterLimit == 50

\* The main loop and the threads that take a semaphore.
SlotThreads == {"mainLoop", "spawnVehicles", "speedManager", "outOfOrder"}

\* The threads whose loop body reads or marks the roster under
\* activeVehiclesSem and changes no size.
RosterReaders == {"speedManager", "outOfOrder"}

\* A position in a thread's code: `lane` is the lane processQueues is at,
\* `left` the vehicles remove_if has still to look at, `removed` the ones
\* it has found off screen.
SlotAt(at) == [at |-> at, lane |-> 0, left |-> 0, removed |-> 0]

\* checkSafeState.
checkSafeState(allocated) == (allocated + 1) <= totalResources

\* checkSafeState approving every request.
requestAlwaysGranted(allocated) ==
    [ret |-> TRUE, allocated |-> allocated + 1]

\* requestResourceForVehicle: what it returns and the count it leaves.
requestResourceForVehicle(allocated) ==
    IF checkSafeState(allocated)
    THEN [ret |-> TRUE, allocated |-> allocated + 1]
    ELSE [ret |-> FALSE, allocated |-> allocated]

\* releaseResourceForVehicle: the count it leaves.
releaseResourceForVehicle(allocated) ==
    IF allocated > 0 THEN allocated - 1 ELSE allocated

\* sem_wait(res) of thread w at position `at` returns 0; w goes on to `next`.
SlotSemWait(w, at, res, next) ==
    /\ pc[w].at = at
    /\ SemAvailable(res)
    /\ sem' = [sem EXCEPT ![res] = @ - 1]
    /\ pc' = [pc EXCEPT ![w] = next]
    /\ UNCHANGED <<queued, activeVehicles, allocatedResources>>

\* sem_wait of thread w at position `at` returns -1; w goes on to `next`.
SlotSemWaitFails(w, at, next) ==
    /\ pc[w].at = at
    /\ pc' = [pc EXCEPT ![w] = next]
    /\ UNCHANGED <<sem, queued, activeVehicles, allocatedResources>>

\* sem_post(res) of thread w at position `at`; w goes on to `next`.
SlotSemPost(w, at, res, next) ==
    /\ pc[w].at = at
    /\ sem' = [sem EXCEPT ![res] = Posted(@)]
    /\ pc' = [pc EXCEPT ![w] = next]
    /\ UNCHANGED <<queued, activeVehicles, allocatedResources>>

\* The sem_wait calls of the main loop that return 0: processQueues
\* (laneSem, then activeVehiclesSem), visualizeTraffic,
\* handleCollisionsAndCleanup.
MainLoopWait ==
    \/ SlotSemWait("mainLoop", "processQueues", LANE_SEM,
                   SlotAt("wait_active"))
    \/ SlotSemWait("mainLoop", "wait_active", ACTIVE_VEHICLES_SEM,
                   [SlotAt("lane_loop") EXCEPT !.lane = 1])
    \/ SlotSemWait("mainLoop", "visualizeTraffic", ACTIVE_VEHICLES_SEM,
                   SlotAt("draw"))
    \/ SlotSemWait("mainLoop", "handleCollisionsAndCleanup",
                   ACTIVE_VEHICLES_SEM,
                   [SlotAt("remove_if") EXCEPT !.left = activeVehicles])

\* The same calls returning -1: processQueues returns (after posting laneSem
\* if it holds it), visualizeTraffic and handleCollisionsAndCleanup return.
MainLoopWaitFails ==
    \/ SlotSemWaitFails("mainLoop", "processQueues",
                        SlotAt("visualizeTraffic"))
    \/ SlotSemWaitFails("mainLoop", "wait_active", SlotAt("post_lane"))
    \/ SlotSemWaitFails("mainLoop", "visualizeTraffic",
                        SlotAt("processQueues"))
    \/ SlotSemWaitFails("mainLoop", "handleCollisionsAndCleanup",
                        SlotAt("processQueues"))

\* The sem_post calls of the main loop.
MainLoopPost ==
    \/ SlotSemPost("mainLoop", "post_active", ACTIVE_VEHICLES_SEM,
                   SlotAt("post_lane"))
    \/ SlotSemPost("mainLoop", "post_lane", LANE_SEM,
                   SlotAt("visualizeTraffic"))
    \/ SlotSemPost("mainLoop", "draw", ACTIVE_VEHICLES_SEM,
                   SlotAt("handleCollisionsAndCleanup"))
    \/ SlotSemPost("mainLoop", "cleanup_post", ACTIVE_VEHICLES_SEM,
                   SlotAt("processQueues"))

\* Where processQueues goes when it is through with lane k.
AfterLane(k) ==
    IF k < Len(RoadLanes)
    THEN [SlotAt("lane_loop") EXCEPT !.lane = k + 1]
    ELSE SlotAt("post_active")

\* processQueues: the test of the while loop on the lane it is at and, when
\* it passes, requestResourceForVehicle.
RequestSlot ==
    /\ pc["mainLoop"].at = "lane_loop"
    /\ LET k == pc["mainLoop"].lane
           asked == requestResourceForVehicle(allocatedResources)
       IN IF queued[RoadLanes[k]] > 0 /\ activeVehicles < RosterLimit
          THEN /\ allocatedResources' = asked.allocated
               /\ pc' = [pc EXCEPT !["mainLoop"] =
                            IF asked.ret
                            THEN [pc["mainLoop"] EXCEPT !.at = "push_back"]
                            ELSE AfterLane(k)]
          ELSE /\ pc' = [pc EXCEPT !["mainLoop"] = AfterLane(k)]
               /\ UNCHANGED allocatedResources
    /\ UNCHANGED <<sem, queued, activeVehicles>>

\* processQueues: activeVehicles.push_back(front), pop_front.
MoveToRoster ==
    /\ pc["mainLoop"].at = "push_back"
    /\ activeVehicles' = activeVehicles + 1
    /\ queued' = [queued EXCEPT ![RoadLanes[pc["mainLoop"].lane]] = @ - 1]
    /\ pc' = [pc EXCEPT !["mainLoop"].at = "lane_loop"]
    /\ UNCHANGED <<sem, allocatedResources>>

\* handleCollisionsAndCleanup: the predicate of remove_if on the next
\* vehicle of the roster; one that is off screen gives its slot back.
LookAtVehicle(offScreen) ==
    /\ pc["mainLoop"].at = "remove_if"
    /\ pc["mainLoop"].left > 0
    /\ allocatedResources' =
           IF offScreen THEN releaseResourceForVehicle(allocatedResources)
           ELSE allocatedResources
    /\ pc' = [pc EXCEPT !["mainLoop"].left = @ - 1,
                        !["mainLoop"].removed =
                            IF offScreen THEN @ + 1 ELSE @]
    /\ UNCHANGED <<sem, queued, activeVehicles>>

\* handleCollisionsAndCleanup: activeVehicles.erase of what remove_if
\* found.
EraseRemoved ==
    /\ pc["mainLoop"].at = "remove_if"
    /\ pc["mainLoop"].left = 0
    /\ activeVehicles' = activeVehicles - pc["mainLoop"].removed
    /\ pc' = [pc EXCEPT !["mainLoop"] = SlotAt("cleanup_post")]
    /\ UNCHANGED <<sem, queued, allocatedResources>>

\* spawnVehiclesThread: sem_wait(laneSem), the push on a lane that is not
\* full (or nothing: lane full, heavy vehicle in peak hours), sem_post.
SlotSpawn ==
    \/ SlotSemWait("spawnVehicles", "idle", LANE_SEM, SlotAt("held"))
    \/ SlotSemWaitFails("spawnVehicles", "idle", SlotAt("idle"))
    \/ /\ pc["spawnVehicles"].at = "held"
       /\ \E k \in 1..Len(RoadLanes) :
              \/ /\ queued[RoadLanes[k]] < maxCapacity
                 /\ queued' = [queued EXCEPT ![RoadLanes[k]] = @ + 1]
              \/ UNCHANGED queued
       /\ pc' = [pc EXCEPT !["spawnVehicles"] = SlotAt("sem_post")]
       /\ UNCHANGED <<sem, activeVehicles, allocatedResources>>
    \/ SlotSemPost("spawnVehicles", "sem_post", LANE_SEM, SlotAt("idle"))

\* speedManagerThread, outOfOrderThread: sem_wait(activeVehiclesSem), the
\* loop over the roster, sem_post.
ReadRoster(w) ==
    \/ SlotSemWait(w, "idle", ACTIVE_VEHICLES_SEM, SlotAt("sem_post"))
    \/ SlotSemWaitFails(w, "idle", SlotAt("idle"))
    \/ SlotSemPost(w, "sem_post", ACTIVE_VEHICLES_SEM, SlotAt("idle"))

\* The semaphores opened with value 1, the lanes empty, no slot taken, the
\* threads started and the main loop about to call processQueues.
InitSlots ==
    /\ Constructed(LedgerRoles)
    /\ sem = [r \in Resources |-> 1]
    /\ pc = [w \in SlotThreads |->
               IF w = "mainLoop" THEN SlotAt("processQueues")
               ELSE SlotAt("idle")]
    /\ portalLedger = <<>>
    /\ entry = <<>>
    /\ laneQueues = 0
    /\ activeVehicles = 0
    /\ trafficLights = <<>>
    /\ currentGreenIndex = 0
    /\ queued = [l \in {RoadLanes[k] : k \in 1..Len(RoadLanes)} |-> 0]
    /\ allocatedResources = 0
    /\ NoThreads
    /\ NoQueues
    /\ NoChallans

\* What no action of the slots changes.
SlotFrame ==
    UNCHANGED <<ledgerVars, portalLedger, entry, laneQueues, trafficLights,
                currentGreenIndex, lockVars, chanVars, billVars>>

MainWaits == MainLoopWait /\ SlotFrame

MainWaitFails == MainLoopWaitFails /\ SlotFrame

MainPosts == MainLoopPost /\ SlotFrame

Requests == RequestSlot /\ SlotFrame

Moves == MoveToRoster /\ SlotFrame

Looks == /\ \E offScreen \in BOOLEAN : LookAtVehicle(offScreen)
         /\ SlotFrame

Erases == EraseRemoved /\ SlotFrame

Spawns == SlotSpawn /\ SlotFrame

Reads == /\ \E w \in RosterReaders : ReadRoster(w)
         /\ SlotFrame

NextSlots == \/ MainWaits
             \/ MainWaitFails
             \/ MainPosts
             \/ Requests
             \/ Moves
             \/ Looks
             \/ Erases
             \/ Spawns
             \/ Reads

SpecSlots == InitSlots /\ [][NextSlots]_vars

\* C39: slot accounting: allocatedResources stays between 0 and
\* totalResources, and whenever activeVehiclesSem is free it equals the
\* number of vehicles in activeVehicles.
C39_SlotsMatchRoster ==
    /\ 0 <= allocatedResources
    /\ allocatedResources <= totalResources
    /\ sem[ACTIVE_VEHICLES_SEM] > 0 => allocatedResources = activeVehicles

\* Both slots are taken by the two vehicles on the roster, a third vehicle
\* is waiting in a lane and has been refused, and the main loop has given
\* activeVehiclesSem back.
C39_Witness ==
    /\ allocatedResources = totalResources
    /\ activeVehicles = totalResources
    /\ \E l \in DOMAIN queued : queued[l] > 0
    /\ pc["mainLoop"].at = "post_lane"
    /\ sem[ACTIVE_VEHICLES_SEM] > 0

=============================================================================
